---- MODULE Spec2Model ----
(***************************************************************************)
(* The research tools of the Exa MCP server (registerResearchTool):        *)
(* deep_research_exa submits a research task and polls its status on a     *)
(* fixed interval up to a wall-clock limit; check_research_status_exa      *)
(* reads the status of a task once.  The provider is the environment: it   *)
(* answers every request with any response the handlers can receive.       *)
(***************************************************************************)
EXTENDS Integers, Sequences, FiniteSets, TLC

(***************************************************************************)
(* Program constants (milliseconds).                                       *)
(***************************************************************************)
maxPollingTime == 120000

pollingInterval == 3000

REQUEST_TIMEOUT == 25000

\* get_contents_exa: the most URLs one request may carry
MaxUrlsPerRequest == 10

\* API_CONFIG.DEFAULT_MAX_CHARACTERS
DEFAULT_MAX_CHARACTERS == 3000

(***************************************************************************)
(* Bounds of the model.                                                    *)
(***************************************************************************)
\* how many provider calls of one invocation may take longer than 0 ms
MaxSlow == 1

\* two concurrent calls: the read by which a task that finishes has finished
MaxFinalRead == 2

\* server start: the longest enabledTools list a configuration carries
MaxEnabled == 1

\* get_contents_exa: the longest list of URLs a call carries
MaxUrls == 11

\* search_webset_items_exa: the most pages a webset's item list has
MaxPages == 2

\* search_webset_items_exa: the most page requests of one call that are followed
MaxFetches == 3

(***************************************************************************)
(* Optional JavaScript values: None is undefined, Some(v) a present value. *)
(***************************************************************************)
None == <<>>

Some(v) == <<v>>

\* JavaScript truthiness of an optional string, object, boolean
TruthyStr(o) == o # None /\ o[1] # ""

TruthyObj(o) == o # None

TruthyBool(o) == o # None /\ o[1] = TRUE

(***************************************************************************)
(* Inputs: tool arguments and provider answers.                            *)
(***************************************************************************)
Queries == {"X"}

TaskIds == {"t1", "t2"}

Schema == <<"{", "\"type\":", "\"object\"", "}">>

\* the arguments of deep_research_exa that the handler's result depends on
ResearchArgs ==
  [query : Queries,
   outputSchema : {None, Some(Schema)},
   llmGenerateSchema : {None, Some(TRUE), Some(FALSE)}]

NoArgs == [query |-> "", outputSchema |-> None, llmGenerateSchema |-> None]

\* a structured-data payload: a JSON object as its members, in order
Payload == <<[key |-> "k", value |-> [t |-> "str", s |-> "v", b |-> FALSE, members |-> <<>>]]>>

Statuses == {None, Some("pending"), Some("processing"), Some("completed"),
             Some("failed"), Some("queued")}

Results ==
  {None} \cup
  {Some(r) : r \in [report : {None, Some(""), Some("R")},
                    data : {None, Some(Payload)}]}

\* ExaResearchResponse bodies of a status read
StatusBodies ==
  [requestId : {Some("r1")},
   status : Statuses,
   result : Results,
   error : {None, Some("source unavailable")}]

\* what axios throws: no response (network failure, timeout) or a non-2xx
\* response with or without a message in its body
AxiosErrors ==
  {[axios |-> TRUE, response |-> None, message |-> "Network Error"],
   [axios |-> TRUE,
    response |-> Some([status |-> "500", message |-> None]),
    message |-> "Request failed with status code 500"],
   [axios |-> TRUE,
    response |-> Some([status |-> "400", message |-> Some("invalid request")]),
    message |-> "Request failed with status code 400"]}

\* an HTTP exchange ends in a thrown error or a 2xx response with its body
HttpOk(body) == [error |-> None, data |-> body]

HttpFail(e) == [error |-> Some(e), data |-> None]

\* answers to POST /research/v0/tasks
SubmitOutcomes ==
  {HttpFail(e) : e \in AxiosErrors} \cup
  {HttpOk(None)} \cup
  {HttpOk(Some([taskId |-> t])) : t \in {None, Some("")} \cup {Some(t) : t \in TaskIds}}

\* answers to GET /research/v0/tasks/:taskId
StatusOutcomes ==
  {HttpFail(e) : e \in AxiosErrors} \cup
  {HttpOk(None)} \cup
  {HttpOk(Some(b)) : b \in StatusBodies}

\* timeout of the axios instance of deep_research_exa
ResearchTimeout == REQUEST_TIMEOUT * 4

\* how long a provider call may take
Latencies == {0, pollingInterval - 1, ResearchTimeout - 1}

(***************************************************************************)
(* JSON.stringify on the values the handlers serialise.  A JSON value is a *)
(* string, a boolean, an object (its members in insertion order) or        *)
(* undefined; the text is the sequence of its tokens.                      *)
(***************************************************************************)
JStr(s) == [t |-> "str", s |-> s, b |-> FALSE, members |-> <<>>]

JBool(b) == [t |-> "bool", s |-> "", b |-> b, members |-> <<>>]

JObj(members) == [t |-> "obj", s |-> "", b |-> FALSE, members |-> members]

JUndef == [t |-> "undef", s |-> "", b |-> FALSE, members |-> <<>>]

\* a number, by its decimal text
JNum(n) == [t |-> "num", s |-> ToString(n), b |-> FALSE, members |-> <<>>]

\* an array; the keys of its members are not used
JArr(items) ==
  [t |-> "arr", s |-> "", b |-> FALSE,
   members |-> [i \in 1..Len(items) |-> [key |-> "", value |-> items[i]]]]

Member(k, v) == [key |-> k, value |-> v]

Quote(s) == "\"" \o s \o "\""

RECURSIVE JSONStringify(_)
RECURSIVE JSONMembers(_, _)
RECURSIVE JSONItems(_, _)

\* the elements of an array, separated by commas
JSONItems(members, first) ==
  IF members = <<>> THEN <<>>
  ELSE (IF first THEN <<>> ELSE <<",">>)
       \o JSONStringify(Head(members).value)
       \o JSONItems(Tail(members), FALSE)

\* the members whose value is undefined are left out
JSONMembers(members, first) ==
  IF members = <<>> THEN <<>>
  ELSE IF Head(members).value.t = "undef" THEN JSONMembers(Tail(members), first)
  ELSE (IF first THEN <<>> ELSE <<",">>)
       \o <<Quote(Head(members).key) \o ":">>
       \o JSONStringify(Head(members).value)
       \o JSONMembers(Tail(members), FALSE)

JSONStringify(v) ==
  CASE v.t = "str" -> <<Quote(v.s)>>
    [] v.t = "bool" -> <<IF v.b THEN "true" ELSE "false">>
    [] v.t = "obj" -> <<"{">> \o JSONMembers(v.members, TRUE) \o <<"}">>
    [] v.t = "num" -> <<v.s>>
    [] v.t = "arr" -> <<"[">> \o JSONItems(v.members, TRUE) \o <<"]">>
    [] OTHER -> <<>>

(***************************************************************************)
(* Tool results.                                                           *)
(***************************************************************************)
NoResult == [content |-> <<>>, isError |-> None]

TextResult(text) == [content |-> <<[type |-> "text", text |-> text]>>, isError |-> None]

ErrorResult(text) ==
  [content |-> <<[type |-> "text", text |-> text]>>, isError |-> Some(TRUE)]

\* new Error(message)
PlainError(message) == [axios |-> FALSE, response |-> None, message |-> message]

\* reading a property of an undefined response body
TypeErrorStatus == PlainError("Cannot read properties of undefined (reading 'status')")

\* mutant: the error is thrown on, the handler returns nothing
CatchResult_Rethrow(prefix, e) == NoResult

\* the catch block of both handlers; prefix is the tool's wording
CatchResult(prefix, e) ==
  IF e.axios
  THEN LET statusCode == IF e.response # None THEN e.response[1].status ELSE "unknown"
           errorMessage == IF e.response # None /\ TruthyStr(e.response[1].message)
                           THEN e.response[1].message[1]
                           ELSE e.message
       IN ErrorResult(<<prefix, " (", statusCode, "): ", errorMessage>>)
  ELSE ErrorResult(<<prefix, ": ", e.message>>)

(***************************************************************************)
(* deep_research_exa: one iteration's decoding of a status body.           *)
(***************************************************************************)
\* formattedResults.schemaUsed = !!args.outputSchema || args.llmGenerateSchema
SchemaUsed(a) ==
  IF TruthyObj(a.outputSchema) THEN JBool(TRUE)
  ELSE IF a.llmGenerateSchema = None THEN JUndef
  ELSE JBool(a.llmGenerateSchema[1])

OptStr(o) == IF o = None THEN JUndef ELSE JStr(o[1])

\* mutant: the footer with the task identifier is dropped
ReportText_NoFooter(a, tid, report) ==
  <<"# Research Report: ", a.query, "\n\n", report>>

\* the report rendering
ReportText(a, tid, report) ==
  <<"# Research Report: ", a.query, "\n\n", report, "\n\n---\n*Research ID: ", tid, "*">>

\* the structured-data rendering
DataText(a, tid, body) ==
  JSONStringify(JObj(<<
    Member("requestId", OptStr(body.requestId)),
    Member("taskId", JStr(tid)),
    Member("researchTopic", JStr(a.query)),
    Member("status", JStr("completed")),
    Member("structuredData", JObj(body.result[1].data[1])),
    Member("schemaUsed", SchemaUsed(a))>>))

Return(r) == [kind |-> "return", result |-> r, error |-> PlainError("")]

Throw(message) == [kind |-> "throw", result |-> NoResult, error |-> PlainError(message)]

Continue == [kind |-> "continue", result |-> NoResult, error |-> PlainError("")]

\* mutant: structured data is not rendered
CompletedBranch_ReportOnly(a, tid, body) ==
  IF ~TruthyObj(body.result)
  THEN Throw("Research completed but no results returned")
  ELSE IF TruthyStr(body.result[1].report)
  THEN Return(TextResult(ReportText(a, tid, body.result[1].report[1])))
  ELSE Throw("Research completed but results are in unexpected format")

\* mutant: a completed task without a result is polled again
CompletedBranch_RetryMissing(a, tid, body) ==
  IF ~TruthyObj(body.result)
  THEN Continue
  ELSE IF TruthyStr(body.result[1].report)
  THEN Return(TextResult(ReportText(a, tid, body.result[1].report[1])))
  ELSE IF TruthyObj(body.result[1].data)
  THEN Return(TextResult(DataText(a, tid, body)))
  ELSE Throw("Research completed but results are in unexpected format")

\* mutant: structured data is looked at before the report
CompletedBranch_DataFirst(a, tid, body) ==
  IF ~TruthyObj(body.result)
  THEN Throw("Research completed but no results returned")
  ELSE IF TruthyObj(body.result[1].data)
  THEN Return(TextResult(DataText(a, tid, body)))
  ELSE IF TruthyStr(body.result[1].report)
  THEN Return(TextResult(ReportText(a, tid, body.result[1].report[1])))
  ELSE Throw("Research completed but results are in unexpected format")

\* status 'completed': render the result, or throw when there is none to render
CompletedBranch(a, tid, body) ==
  IF ~TruthyObj(body.result)
  THEN Throw("Research completed but no results returned")
  ELSE IF TruthyStr(body.result[1].report)
  THEN Return(TextResult(ReportText(a, tid, body.result[1].report[1])))
  ELSE IF TruthyObj(body.result[1].data)
  THEN Return(TextResult(DataText(a, tid, body)))
  ELSE Throw("Research completed but results are in unexpected format")

\* mutant: a failed task is polled again
FailedBranch_KeepPolling(body) == Continue

\* mutant: the provider's message is dropped
FailedBranch_GenericOnly(body) == Throw("Research task failed")

\* status 'failed': throw the provider's message, or the generic one
FailedBranch(body) ==
  Throw(IF TruthyStr(body.error) THEN body.error[1] ELSE "Research task failed")

\* mutant: a completed task is polled again
PollDecode_SkipCompleted(a, tid, body) ==
  IF body.status = Some("failed") THEN FailedBranch(body) ELSE Continue

\* mutant: a status outside the declared ones is an error
PollDecode_StrictStatus(a, tid, body) ==
  IF body.status = Some("completed") THEN CompletedBranch(a, tid, body)
  ELSE IF body.status = Some("failed") THEN FailedBranch(body)
  ELSE IF body.status \in {Some("pending"), Some("processing")} THEN Continue
  ELSE Throw("Research completed but returned unexpected format")

\* what the loop body does with the body of a status response
PollDecode(a, tid, body) ==
  IF body.status = Some("completed") THEN CompletedBranch(a, tid, body)
  ELSE IF body.status = Some("failed") THEN FailedBranch(body)
  ELSE Continue

\* mutant: the timeout notice is flagged as an error
TimeoutResult_AsError(tid) ==
  ErrorResult(<<"Research task is still processing. Task ID: ", tid,
                "\n\nThe research is taking longer than expected. You can check the status later using the task ID.">>)

\* the result returned when the loop ends without a terminal status
TimeoutResult(tid) ==
  TextResult(<<"Research task is still processing. Task ID: ", tid,
               "\n\nThe research is taking longer than expected. You can check the status later using the task ID.">>)

\* mutant: the loop has no limit
LoopCondition_Forever(t, start) == TRUE

\* mutant: the limit itself still starts a round
LoopCondition_Inclusive(t, start) == t - start <= maxPollingTime

\* while (Date.now() - startTime < maxPollingTime)
LoopCondition(t, start) == t - start < maxPollingTime

\* mutant: the delay grows with the round
PollDelay_Backoff(n) == pollingInterval * (n + 1)

\* the delay handed to setTimeout in the n-th round (n from 0)
PollDelay(n) == pollingInterval

\* mutant: only the response body is checked, not its taskId
HasTaskId_BodyOnly(out) == out.data # None

\* the submission response carries a task identifier
HasTaskId(out) == out.data # None /\ TruthyStr(out.data[1].taskId)

\* taskResponse.data.taskId, as the status URL will spell it
TaskIdOf(out) == IF out.data[1].taskId = None THEN "undefined" ELSE out.data[1].taskId[1]

(***************************************************************************)
(* check_research_status_exa: the decoding of a status body.               *)
(***************************************************************************)
\* the provider's research endpoints (API_CONFIG.ENDPOINTS)
RESEARCH == <<"/research/v0/tasks">>

\* RESEARCH_STATUS.replace(':taskId', taskId)
StatusUrl(tid) == <<"/research/v0/tasks/", tid>>

\* axiosInstance.post(API_CONFIG.ENDPOINTS.RESEARCH, researchRequest)
SubmitRequest(from) == [from |-> from, method |-> "POST", url |-> RESEARCH]

\* mutant: the status is asked for with a request that carries a body
StatusRequest_Post(from, tid) == [from |-> from, method |-> "POST", url |-> StatusUrl(tid)]

\* axiosInstance.get(statusUrl)
StatusRequest(from, tid) == [from |-> from, method |-> "GET", url |-> StatusUrl(tid)]

CheckReportText(tid, report) == <<"# Research Report (Task: ", tid, ")\n\n", report>>

CheckDataText(tid, body) ==
  JSONStringify(JObj(<<
    Member("taskId", JStr(tid)),
    Member("status", JStr("completed")),
    Member("data", JObj(body.result[1].data[1]))>>))

\* the fall-through answer: the status as reported
CheckStatusText(tid, body) ==
  JSONStringify(JObj(<<
    Member("taskId", JStr(tid)),
    Member("status", OptStr(body.status)),
    Member("error", OptStr(body.error))>>))

\* mutant: the status is reported, never the result
CheckDecode_StatusOnly(tid, body) == TextResult(CheckStatusText(tid, body))

CheckDecode(tid, body) ==
  IF body.status = Some("completed") /\ TruthyObj(body.result)
     /\ TruthyStr(body.result[1].report)
  THEN TextResult(CheckReportText(tid, body.result[1].report[1]))
  ELSE IF body.status = Some("completed") /\ TruthyObj(body.result)
          /\ TruthyObj(body.result[1].data)
  THEN TextResult(CheckDataText(tid, body))
  ELSE TextResult(CheckStatusText(tid, body))

\* what check_research_status_exa makes of the response of its read
CheckAnswer(tid, out) ==
  IF out.error # None THEN CatchResult("Status check error", out.error[1])
  ELSE IF out.data = None THEN CatchResult("Status check error", TypeErrorStatus)
  ELSE CheckDecode(tid, out.data[1])

VARIABLES
  pc,             \* deep_research_exa: idle, submit, loop, sleep, read, done
  args,           \* its arguments
  now,            \* Date.now()
  startTime,      \* Date.now() when polling began
  taskResponse,   \* outcome of the submission request, None before it
  taskId,         \* the task identifier polled, "" before it is known
  lastStatus,     \* the status of the latest status response (the logged one)
  statusResponse, \* the body of the status response that ended the loop
  caught,         \* the error the catch block received
  result,         \* what the handler returned
  posts,          \* submission requests sent
  gets,           \* status reads sent by deep_research_exa
  sleeps,         \* sleeps of the poll loop
  slow,           \* provider calls that took longer than 0 ms
  chkPc,          \* check_research_status_exa: idle, read, done
  chkTaskId,      \* its taskId argument
  chkResponse,    \* outcome of its status read, None before it
  chkResult,      \* what it returned
  chkGets,        \* status reads it sent
  requests,       \* the requests the two handlers sent to the provider
  clock,          \* two concurrent calls: Date.now()
  ppc,            \* position of each call: idle, submit, loop, sleep, asleep, read, done
  frames,         \* the locals of the handler's closure, by frame
  wake,           \* when the timer of each call's sleep fires
  began,          \* when each call's submission returned
  reads,          \* status reads each call has sent
  last,           \* the latest status body each call has received
  outcome,        \* what each call returned
  preqs,          \* the requests each call has sent
  config,         \* server start: the configuration the host passed
  rpc,            \* server start: the registration step reached
  exposed,        \* the tools registered on the server (server.tool calls)
  registeredTools, \* the names pushed onto registeredTools
  wsConfig,       \* Websets server start: the configuration the host passed
  wsEnv,          \* process.env (EXA_API_KEY, ENABLED_TOOLS)
  finalConfig,    \* the configuration resolved against the environment
  wsPc,           \* the step reached
  wsExposed,      \* the tools registered on the server (server.tool calls)
  wsRegistered,   \* the names pushed onto its registeredTools
  wsThrown,       \* the error the default export threw
  ctPc,           \* get_contents_exa: idle, post, done
  ctArgs,         \* its arguments
  ctRequests,     \* the requests it sent to the provider
  ctResult,       \* what it returned
  enPc,           \* create_webset_enrichment_exa: idle, post, done
  enArgs,         \* its arguments
  enRequests,     \* the requests it sent to the provider
  enResult,       \* what it returned
  siPc,           \* search_webset_items_exa: idle, loop, filter, done
  siArgs,         \* its arguments
  siBook,         \* the provider's item list of the webset, page by page
  siCursor,       \* cursor
  siAllItems,     \* allItems
  siRequests,     \* the requests it sent to the provider
  siFormatted,    \* formattedResult
  siResult        \* what it returned

researchVars == <<pc, args, now, startTime, taskResponse, taskId, lastStatus,
                  statusResponse, caught, result, posts, gets, sleeps, slow>>

checkVars == <<chkPc, chkTaskId, chkResponse, chkResult, chkGets>>

pairVars == <<clock, ppc, frames, wake, began, reads, last, outcome, preqs>>

\* the state of the other scenarios, which the steps of one leave alone
registryVars == <<config, rpc, exposed, registeredTools>>

websetVars == <<wsConfig, wsEnv, finalConfig, wsPc, wsExposed, wsRegistered, wsThrown>>

contentsVars == <<ctPc, ctArgs, ctRequests, ctResult>>

enrichmentVars == <<enPc, enArgs, enRequests, enResult>>

itemsVars == <<siPc, siArgs, siBook, siCursor, siAllItems, siRequests, siFormatted, siResult>>

sideVars == <<pairVars, registryVars, websetVars, contentsVars, enrichmentVars, itemsVars>>

mainVars == <<researchVars, checkVars, requests>>

\* what the steps of the concurrent scenario leave alone
pairOthers == <<mainVars, registryVars, websetVars, contentsVars, enrichmentVars, itemsVars>>

\* what the steps of the server start leave alone
registryOthers == <<mainVars, pairVars, websetVars, contentsVars, enrichmentVars, itemsVars>>

\* what the steps of the Websets server start leave alone
websetOthers == <<mainVars, pairVars, registryVars, contentsVars, enrichmentVars, itemsVars>>

\* what the steps of get_contents_exa leave alone
contentsOthers == <<mainVars, pairVars, registryVars, websetVars, enrichmentVars, itemsVars>>

\* what the steps of create_webset_enrichment_exa leave alone
enrichmentOthers == <<mainVars, pairVars, registryVars, websetVars, contentsVars, itemsVars>>

\* what the steps of search_webset_items_exa leave alone
itemsOthers == <<mainVars, pairVars, registryVars, websetVars, contentsVars, enrichmentVars>>

vars == <<mainVars, sideVars>>

\* the two calls of the concurrent scenario and what the provider names their tasks
Calls == {1, 2}

PairArgs == <<[query |-> "X", outputSchema |-> None, llmGenerateSchema |-> None],
              [query |-> "Y", outputSchema |-> None, llmGenerateSchema |-> None]>>

PairTask == <<"t1", "t2">>

\* the status bodies of the concurrent scenario
PairBodies ==
  {b \in StatusBodies :
     /\ b.error = None
     /\ \/ b.status = Some("pending") /\ b.result = None
        \/ b.status = Some("failed") /\ b.result = None
        \/ b.status = Some("completed")
           /\ b.result = Some([report |-> Some("R"), data |-> None])}

\* mutant: the locals live in one place that every call uses
Frame_Shared(i) == 1

\* each call of the handler has its own taskId, startTime and args
Frame(i) == i

NoFrame == [args |-> NoArgs, taskId |-> "", startTime |-> 0]

PairIdle ==
  /\ clock = 0
  /\ ppc = [i \in Calls |-> "idle"]
  /\ frames = [i \in Calls |-> NoFrame]
  /\ wake = [i \in Calls |-> 0]
  /\ began = [i \in Calls |-> 0]
  /\ reads = [i \in Calls |-> 0]
  /\ last = [i \in Calls |-> None]
  /\ outcome = [i \in Calls |-> NoResult]
  /\ preqs = [i \in Calls |-> {}]


MainIdle ==
  /\ pc = "idle"
  /\ args = NoArgs
  /\ now = 0
  /\ startTime = 0
  /\ taskResponse = None
  /\ taskId = ""
  /\ lastStatus = None
  /\ statusResponse = None
  /\ caught = None
  /\ result = NoResult
  /\ posts = 0
  /\ gets = 0
  /\ sleeps = 0
  /\ slow = 0
  /\ chkPc = "idle"
  /\ chkTaskId = ""
  /\ chkResponse = None
  /\ chkResult = NoResult
  /\ chkGets = 0
  /\ requests = {}

\* the default export has not been called
RegistryIdle ==
  /\ config = [enabledTools |-> None]
  /\ rpc = "unloaded"
  /\ exposed = {}
  /\ registeredTools = <<>>

NoFinalConfig == [exaApiKey |-> None, enabledTools |-> None]

\* the default export of the Websets server has not been called
WebsetIdle ==
  /\ wsConfig = [exaApiKey |-> None, enabledTools |-> None]
  /\ wsEnv = [EXA_API_KEY |-> None, ENABLED_TOOLS |-> None]
  /\ finalConfig = NoFinalConfig
  /\ wsPc = "unloaded"
  /\ wsExposed = {}
  /\ wsRegistered = {}
  /\ wsThrown = None

NoContentsArgs == [urls |-> <<>>, text |-> None, livecrawl |-> None]

\* get_contents_exa has not been called
ContentsIdle ==
  /\ ctPc = "idle"
  /\ ctArgs = NoContentsArgs
  /\ ctRequests = <<>>
  /\ ctResult = NoResult

NoEnrichmentArgs ==
  [websetId |-> "", description |-> "", format |-> None, options |-> None,
   metadata |-> None]

\* create_webset_enrichment_exa has not been called
EnrichmentIdle ==
  /\ enPc = "idle"
  /\ enArgs = NoEnrichmentArgs
  /\ enRequests = <<>>
  /\ enResult = NoResult

NoItemsArgs == [websetId |-> "", filters |-> None]

NoFormatted ==
  [websetId |-> "", totalItems |-> 0, matchingItems |-> 0, filters |-> None,
   items |-> <<>>]

\* search_webset_items_exa has not been called
ItemsIdle ==
  /\ siPc = "idle"
  /\ siArgs = NoItemsArgs
  /\ siBook = <<>>
  /\ siCursor = None
  /\ siAllItems = <<>>
  /\ siRequests = <<>>
  /\ siFormatted = NoFormatted
  /\ siResult = NoResult

Init ==
  /\ MainIdle
  /\ PairIdle
  /\ RegistryIdle
  /\ WebsetIdle
  /\ ContentsIdle
  /\ EnrichmentIdle
  /\ ItemsIdle

\* a provider call takes lat ms
Elapse(lat) ==
  /\ lat > 0 => slow < MaxSlow
  /\ now' = now + lat
  /\ slow' = IF lat > 0 THEN slow + 1 ELSE slow

\* the host calls deep_research_exa (one call at a time)
InvokeResearch ==
  /\ pc = "idle"
  /\ chkPc = "idle"
  /\ \E a \in ResearchArgs : args' = a
  /\ pc' = "submit"
  /\ UNCHANGED <<now, startTime, taskResponse, taskId, lastStatus, statusResponse,
                 caught, result, posts, gets, sleeps, slow>>
  /\ UNCHANGED <<checkVars, requests, sideVars>>

\* mutant: the error is noted and the loop goes on
Catch_Retry(e) ==
  /\ caught' = Some(e)
  /\ pc' = "loop"
  /\ UNCHANGED result

\* the handler ends in its catch block
Catch(e) ==
  /\ caught' = Some(e)
  /\ result' = CatchResult("Research error", e)
  /\ pc' = "done"

\* POST the research request, then check the task identifier
Submit ==
  /\ pc = "submit"
  /\ \E lat \in Latencies, out \in SubmitOutcomes :
       /\ Elapse(lat)
       /\ taskResponse' = Some(out)
       /\ posts' = posts + 1
       /\ requests' = requests \cup {SubmitRequest("deep_research_exa")}
       /\ IF out.error # None
          THEN Catch(out.error[1]) /\ UNCHANGED <<taskId, startTime>>
          ELSE IF ~HasTaskId(out)
          THEN /\ Catch(PlainError("Failed to start research task - no task ID received"))
               /\ UNCHANGED <<taskId, startTime>>
          ELSE /\ taskId' = TaskIdOf(out)
               /\ startTime' = now'
               /\ pc' = "loop"
               /\ UNCHANGED <<caught, result>>
  /\ UNCHANGED <<args, lastStatus, statusResponse, gets, sleeps>>
  /\ UNCHANGED <<checkVars, sideVars>>

\* the while condition: another round, or the timeout result
LoopCheck ==
  /\ pc = "loop"
  /\ IF LoopCondition(now, startTime)
     THEN pc' = "sleep" /\ UNCHANGED result
     ELSE pc' = "done" /\ result' = TimeoutResult(taskId)
  /\ UNCHANGED <<args, now, startTime, taskResponse, taskId, lastStatus,
                 statusResponse, caught, posts, gets, sleeps, slow>>
  /\ UNCHANGED <<checkVars, requests, sideVars>>

\* await setTimeout(pollingInterval)
Sleep ==
  /\ pc = "sleep"
  /\ now' = now + PollDelay(sleeps)
  /\ sleeps' = sleeps + 1
  /\ pc' = "read"
  /\ UNCHANGED <<args, startTime, taskResponse, taskId, lastStatus, statusResponse,
                 caught, result, posts, gets, slow>>
  /\ UNCHANGED <<checkVars, requests, sideVars>>

\* GET the task's status and decode it
PollStatus ==
  /\ pc = "read"
  /\ \E lat \in Latencies, out \in StatusOutcomes :
       /\ Elapse(lat)
       /\ gets' = gets + 1
       /\ requests' = requests \cup {StatusRequest("deep_research_exa", taskId)}
       /\ IF out.error # None
          THEN Catch(out.error[1]) /\ UNCHANGED <<lastStatus, statusResponse>>
          ELSE IF out.data = None
          THEN Catch(TypeErrorStatus) /\ UNCHANGED <<lastStatus, statusResponse>>
          ELSE LET body == out.data[1]
                   d == PollDecode(args, taskId, body)
               IN /\ lastStatus' = body.status
                  /\ CASE d.kind = "continue" ->
                            /\ pc' = "loop"
                            /\ UNCHANGED <<statusResponse, caught, result>>
                       [] d.kind = "return" ->
                            /\ pc' = "done"
                            /\ result' = d.result
                            /\ statusResponse' = Some(body)
                            /\ UNCHANGED caught
                       [] d.kind = "throw" ->
                            /\ Catch(d.error)
                            /\ statusResponse' = Some(body)
  /\ UNCHANGED <<args, startTime, taskResponse, taskId, posts, sleeps>>
  /\ UNCHANGED <<checkVars, sideVars>>

\* the identifier a caller reads off the timeout notice
NoticeTaskId(r) == r.content[1].text[2]

\* the host calls check_research_status_exa: on its own with any identifier,
\* or after deep_research_exa gave up, with the identifier of its notice
InvokeCheck ==
  /\ chkPc = "idle"
  /\ \/ pc = "idle" /\ chkTaskId' \in TaskIds
     \/ /\ pc = "done"
        /\ result = TimeoutResult(taskId)
        /\ chkTaskId' = NoticeTaskId(result)
  /\ chkPc' = "read"
  /\ UNCHANGED <<chkResponse, chkResult, chkGets, requests>>
  /\ UNCHANGED <<researchVars, sideVars>>

\* mutant: a task that is not finished is read again
CheckStatus_Poll ==
  /\ chkPc = "read"
  /\ \E out \in StatusOutcomes :
       /\ chkResponse' = Some(out)
       /\ chkGets' = chkGets + 1
       /\ requests' = requests \cup {StatusRequest("check_research_status_exa", chkTaskId)}
       /\ IF out.data # None /\ out.data[1].status = Some("pending") /\ chkGets = 0
          THEN chkPc' = "read" /\ UNCHANGED chkResult
          ELSE chkPc' = "done" /\ chkResult' = CheckAnswer(chkTaskId, out)
  /\ UNCHANGED chkTaskId
  /\ UNCHANGED <<researchVars, sideVars>>

\* GET the task's status once and decode it
CheckStatus ==
  /\ chkPc = "read"
  /\ \E out \in StatusOutcomes :
       /\ chkResponse' = Some(out)
       /\ chkGets' = chkGets + 1
       /\ requests' = requests \cup {StatusRequest("check_research_status_exa", chkTaskId)}
       /\ chkResult' = CheckAnswer(chkTaskId, out)
  /\ chkPc' = "done"
  /\ UNCHANGED chkTaskId
  /\ UNCHANGED <<researchVars, sideVars>>

Next ==
  \/ InvokeResearch
  \/ Submit
  \/ LoopCheck
  \/ Sleep
  \/ PollStatus
  \/ InvokeCheck
  \/ CheckStatus

Spec == Init /\ [][Next]_vars

\* time advances (a sleep ends), every provider call returns or fails within
\* the request timeout, and the handler's own steps are taken
FairSpec ==
  /\ Spec
  /\ WF_vars(Submit)
  /\ WF_vars(LoopCheck)
  /\ WF_vars(Sleep)
  /\ WF_vars(PollStatus)

(***************************************************************************)
(* Two calls of deep_research_exa in flight at once.  The host runs the    *)
(* handler once per call; between two awaits a call runs alone, and at an  *)
(* await (the POST, the timer, the GET) the other call may run.            *)
(***************************************************************************)
\* how long the submission may take
PairLatencies == {0, 1000}

Local(i) == frames[Frame(i)]

\* the host calls the handler: args is bound and the POST is sent
PInvoke(i) ==
  /\ ppc[i] = "idle"
  /\ frames' = [frames EXCEPT ![Frame(i)].args = PairArgs[i]]
  /\ \E lat \in PairLatencies : wake' = [wake EXCEPT ![i] = clock + lat]
  /\ preqs' = [preqs EXCEPT ![i] = @ \cup {SubmitRequest("deep_research_exa")}]
  /\ ppc' = [ppc EXCEPT ![i] = "submit"]
  /\ UNCHANGED <<clock, began, reads, last, outcome>>
  /\ UNCHANGED pairOthers

\* the POST returns the task: taskId and startTime are set
PSubmit(i) ==
  /\ ppc[i] = "submit"
  /\ clock >= wake[i]
  /\ frames' = [frames EXCEPT ![Frame(i)].taskId = PairTask[i],
                              ![Frame(i)].startTime = clock]
  /\ began' = [began EXCEPT ![i] = clock]
  /\ ppc' = [ppc EXCEPT ![i] = "loop"]
  /\ UNCHANGED <<clock, wake, reads, last, outcome, preqs>>
  /\ UNCHANGED pairOthers

\* the while condition: set the timer of the next round, or give up
PLoopCheck(i) ==
  /\ ppc[i] = "loop"
  /\ IF LoopCondition(clock, Local(i).startTime)
     THEN /\ wake' = [wake EXCEPT ![i] = clock + PollDelay(reads[i])]
          /\ ppc' = [ppc EXCEPT ![i] = "asleep"]
          /\ UNCHANGED outcome
     ELSE /\ outcome' = [outcome EXCEPT ![i] = TimeoutResult(Local(i).taskId)]
          /\ ppc' = [ppc EXCEPT ![i] = "done"]
          /\ UNCHANGED wake
  /\ UNCHANGED <<clock, frames, began, reads, last, preqs>>
  /\ UNCHANGED pairOthers

\* the timer has fired: the GET of the task's status is sent
PWake(i) ==
  /\ ppc[i] = "asleep"
  /\ clock >= wake[i]
  /\ preqs' = [preqs EXCEPT ![i] = @ \cup {StatusRequest("deep_research_exa", Local(i).taskId)}]
  /\ reads' = [reads EXCEPT ![i] = @ + 1]
  /\ ppc' = [ppc EXCEPT ![i] = "read"]
  /\ UNCHANGED <<clock, frames, wake, began, last, outcome>>
  /\ UNCHANGED pairOthers

\* the GET returns a status body, which is decoded
PRead(i) ==
  /\ ppc[i] = "read"
  /\ \E b \in PairBodies :
       /\ b.status # Some("pending") => reads[i] <= MaxFinalRead
       /\ LET d == PollDecode(Local(i).args, Local(i).taskId, b)
         IN /\ last' = [last EXCEPT ![i] = Some(b)]
            /\ CASE d.kind = "continue" ->
                      ppc' = [ppc EXCEPT ![i] = "loop"] /\ UNCHANGED outcome
                 [] d.kind = "return" ->
                      /\ ppc' = [ppc EXCEPT ![i] = "done"]
                      /\ outcome' = [outcome EXCEPT ![i] = d.result]
                 [] d.kind = "throw" ->
                      /\ ppc' = [ppc EXCEPT ![i] = "done"]
                      /\ outcome' = [outcome EXCEPT ![i] = CatchResult("Research error", d.error)]
  /\ UNCHANGED <<clock, frames, wake, began, reads, preqs>>
  /\ UNCHANGED pairOthers

\* a call that waits for the response to its POST or for its timer
Pending(i) == ppc[i] \in {"submit", "asleep"} /\ wake[i] > clock

\* a call that is waiting, for the host to begin it included, or has returned
Waiting(i) == ppc[i] \in {"idle", "done"} \/ Pending(i)

\* every call is waiting: time passes until the next one can go on
Tick ==
  /\ \A i \in Calls : Waiting(i)
  /\ \E i \in Calls :
       /\ Pending(i)
       /\ \A j \in Calls : Pending(j) => wake[i] <= wake[j]
       /\ clock' = wake[i]
  /\ UNCHANGED <<ppc, frames, wake, began, reads, last, outcome, preqs>>
  /\ UNCHANGED pairOthers

PairNext ==
  \/ \E i \in Calls : PInvoke(i)
  \/ \E i \in Calls : PSubmit(i)
  \/ \E i \in Calls : PLoopCheck(i)
  \/ \E i \in Calls : PWake(i)
  \/ \E i \in Calls : PRead(i)
  \/ Tick

SpecPair == Init /\ [][PairNext]_vars

(***************************************************************************)
(* Server start (index.ts): the tools are registered according to          *)
(* config.enabledTools.  The steps are those whose register function is in *)
(* the sources at hand: contents, find similar, answer and research.       *)
(***************************************************************************)
\* the tools these register functions define, and their entries in availableTools
AvailableTools ==
  {"get_contents_exa", "find_similar_exa", "answer_with_citations_exa",
   "deep_research_exa", "check_research_status_exa"}

\* names a configuration may list: the tools above and one that none of these steps registers
ToolIds == AvailableTools \cup {"web_search_exa"}

\* config.enabledTools: absent, or a list of names
Configs == [enabledTools : {None} \cup {Some(l) : l \in SUBSET ToolIds}]

shouldRegisterTool(c, toolId) ==
  IF c.enabledTools # None /\ Cardinality(c.enabledTools[1]) > 0
  THEN toolId \in c.enabledTools[1]
  ELSE toolId \in AvailableTools

\* server.tool(name, ...) calls of each register function
registerContentsTool == {"get_contents_exa"}

registerFindSimilarTool == {"find_similar_exa"}

registerAnswerTool == {"answer_with_citations_exa"}

registerResearchTool == {"deep_research_exa", "check_research_status_exa"}

\* the names of a list that pass shouldRegisterTool, in order
RECURSIVE Enabled(_, _)
Enabled(c, ids) ==
  IF ids = <<>> THEN <<>>
  ELSE (IF shouldRegisterTool(c, Head(ids)) THEN <<Head(ids)>> ELSE <<>>)
       \o Enabled(c, Tail(ids))

\* if (shouldRegisterTool(id)) { register(server, config); registeredTools.push(id) }
RegisterOne(at, id, tools, next) ==
  /\ rpc = at
  /\ IF shouldRegisterTool(config, id)
     THEN /\ exposed' = exposed \cup tools
          /\ registeredTools' = Append(registeredTools, id)
     ELSE UNCHANGED <<exposed, registeredTools>>
  /\ rpc' = next
  /\ UNCHANGED config
  /\ UNCHANGED registryOthers

\* the host calls the default export with its configuration
Initialise ==
  /\ rpc = "unloaded"
  /\ config' \in Configs
  /\ rpc' = "contents"
  /\ UNCHANGED <<exposed, registeredTools>>
  /\ UNCHANGED registryOthers

RegisterContents ==
  RegisterOne("contents", "get_contents_exa", registerContentsTool, "similar")

RegisterFindSimilar ==
  RegisterOne("similar", "find_similar_exa", registerFindSimilarTool, "answer")

RegisterAnswer ==
  RegisterOne("answer", "answer_with_citations_exa", registerAnswerTool, "research")

\* the research pair: one register function behind two names
RegisterResearch ==
  /\ rpc = "research"
  /\ IF \/ shouldRegisterTool(config, "deep_research_exa")
        \/ shouldRegisterTool(config, "check_research_status_exa")
     THEN /\ exposed' = exposed \cup registerResearchTool
          /\ registeredTools' =
               registeredTools
                 \o Enabled(config, <<"deep_research_exa", "check_research_status_exa">>)
     ELSE UNCHANGED <<exposed, registeredTools>>
  /\ rpc' = "return"
  /\ UNCHANGED config
  /\ UNCHANGED registryOthers

\* return server.server
ReturnServer ==
  /\ rpc = "return"
  /\ rpc' = "serving"
  /\ UNCHANGED <<config, exposed, registeredTools>>
  /\ UNCHANGED registryOthers

RegistryNext ==
  \/ Initialise
  \/ RegisterContents
  \/ RegisterFindSimilar
  \/ RegisterAnswer
  \/ RegisterResearch
  \/ ReturnServer

SpecRegistry == Init /\ [][RegistryNext]_vars

(***************************************************************************)
(* The Websets server (its own index): the API key is resolved and         *)
(* checked, then the tool groups are registered according to enabledTools. *)
(***************************************************************************)
\* the registry of the Websets server; every entry has enabled: true
WebsetAvailableTools ==
  {"create_webset_exa", "list_websets_exa", "get_webset_exa",
   "update_webset_exa", "delete_webset_exa", "cancel_webset_exa",
   "create_webset_search_exa", "get_webset_search_exa",
   "list_webset_searches_exa", "cancel_webset_search_exa",
   "create_webset_enrichment_exa", "get_webset_enrichment_exa",
   "list_webset_enrichments_exa", "delete_webset_enrichment_exa",
   "cancel_webset_enrichment_exa", "list_webset_items_exa",
   "get_webset_item_exa", "delete_webset_item_exa",
   "search_webset_items_exa", "create_import_exa", "get_import_exa",
   "list_imports_exa", "update_import_exa", "delete_import_exa",
   "create_webset_monitor_exa", "get_webset_monitor_exa",
   "list_webset_monitors_exa", "update_webset_monitor_exa",
   "delete_webset_monitor_exa", "list_monitor_runs_exa",
   "get_monitor_run_exa", "create_webhook_exa", "get_webhook_exa",
   "list_webhooks_exa", "update_webhook_exa", "delete_webhook_exa",
   "list_webhook_attempts_exa", "list_events_exa", "get_event_exa",
   "create_export_exa", "get_export_exa", "list_exports_exa",
   "delete_export_exa", "update_webset_item_exa", "batch_update_items_exa",
   "batch_delete_items_exa", "batch_verify_items_exa"}

websetCoreTools ==
  {"create_webset_exa", "list_webset_items_exa", "get_webset_item_exa",
   "list_websets_exa", "get_webset_exa", "search_webset_items_exa"}

websetEnrichmentTools ==
  {"create_webset_enrichment_exa", "list_webset_enrichments_exa",
   "get_webset_enrichment_exa", "delete_webset_enrichment_exa",
   "cancel_webset_enrichment_exa"}

websetAutomationTools ==
  {"create_import_exa", "get_import_exa", "list_imports_exa",
   "update_import_exa", "delete_import_exa", "create_webset_monitor_exa",
   "get_webset_monitor_exa", "list_webset_monitors_exa",
   "update_webset_monitor_exa", "delete_webset_monitor_exa",
   "list_monitor_runs_exa", "get_monitor_run_exa", "create_webhook_exa",
   "get_webhook_exa", "list_webhooks_exa", "update_webhook_exa",
   "delete_webhook_exa", "list_webhook_attempts_exa"}

websetExportTools ==
  {"create_export_exa", "get_export_exa", "list_exports_exa",
   "delete_export_exa"}

websetManagementTools ==
  {"create_webset_search_exa", "get_webset_search_exa",
   "list_webset_searches_exa", "cancel_webset_search_exa",
   "update_webset_exa", "delete_webset_exa", "delete_webset_item_exa",
   "cancel_webset_exa"}

websetSystemTools ==
  {"list_events_exa", "get_event_exa"}

websetBatchTools ==
  {"update_webset_item_exa", "batch_update_items_exa",
   "batch_delete_items_exa", "batch_verify_items_exa"}

allWebsetTools ==
  websetCoreTools \cup websetEnrichmentTools \cup websetAutomationTools
    \cup websetExportTools \cup websetBatchTools \cup websetManagementTools
    \cup websetSystemTools

\* the names t of the registry with t.includes('item')
IncludesItem ==
  {"list_webset_items_exa", "get_webset_item_exa", "delete_webset_item_exa",
   "search_webset_items_exa", "update_webset_item_exa",
   "batch_update_items_exa", "batch_delete_items_exa",
   "batch_verify_items_exa"}

\* the names t of the registry with t.includes('search')
IncludesSearch ==
  {"create_webset_search_exa", "get_webset_search_exa",
   "list_webset_searches_exa", "cancel_webset_search_exa",
   "search_webset_items_exa"}

\* the server.tool(name, ...) calls of each register function
registerWebsetManagementTools ==
  {"create_webset_exa", "list_websets_exa", "get_webset_exa",
   "update_webset_exa", "delete_webset_exa", "cancel_webset_exa"}

registerWebsetSearchTools ==
  {"create_webset_search_exa", "get_webset_search_exa",
   "list_webset_searches_exa", "cancel_webset_search_exa"}

registerWebsetEnrichmentTools ==
  {"create_webset_enrichment_exa", "get_webset_enrichment_exa",
   "list_webset_enrichments_exa", "delete_webset_enrichment_exa",
   "cancel_webset_enrichment_exa"}

registerWebsetItemTools ==
  {"list_webset_items_exa", "get_webset_item_exa", "delete_webset_item_exa",
   "search_webset_items_exa"}

registerWebsetOperationTools ==
  {"create_import_exa", "get_import_exa", "create_webset_monitor_exa",
   "update_webset_monitor_exa", "create_webhook_exa",
   "list_webhook_attempts_exa", "list_events_exa", "get_event_exa"}

\* the export and batch register functions: each registers the tools of its group
registerWebsetExportTools == websetExportTools

registerWebsetBatchTools == websetBatchTools

\* names a configuration may list: the registry and one name outside it
WsToolIds == WebsetAvailableTools \cup {"web_search_exa"}

\* the lists of at most n names
RECURSIVE ListsUpTo(_)
ListsUpTo(n) ==
  IF n = 0 THEN {{}}
  ELSE LET shorter == ListsUpTo(n - 1)
       IN shorter \cup {l \cup {t} : l \in shorter, t \in WsToolIds}

\* config: exaApiKey (possibly empty or absent at run time), enabledTools
WsConfigs ==
  [exaApiKey : {None, Some(""), Some("key-c")},
   enabledTools : {None} \cup {Some(l) : l \in ListsUpTo(MaxEnabled)}]

\* process.env: ENABLED_TOOLS, when set, names one tool here
WsEnvs ==
  [EXA_API_KEY : {None, Some(""), Some("key-e")},
   ENABLED_TOOLS : {None, Some(""), Some("get_webset_exa")}]

\* process.env.ENABLED_TOOLS.split(',') of a text without a comma
SplitComma(text) == {text}

\* const finalConfig = { exaApiKey: ... || ..., enabledTools: ... || ... }
Resolve(c, e) ==
  [exaApiKey |-> IF TruthyStr(c.exaApiKey) THEN c.exaApiKey ELSE e.EXA_API_KEY,
   enabledTools |->
     IF c.enabledTools # None THEN c.enabledTools
     ELSE IF TruthyStr(e.ENABLED_TOOLS) THEN Some(SplitComma(e.ENABLED_TOOLS[1]))
     ELSE None]

\* mutant: the key is not checked
KeyMissing_Unchecked(f) == FALSE

\* !finalConfig.exaApiKey
KeyMissing(f) == ~TruthyStr(f.exaApiKey)

wsShouldRegisterTool(f, toolId) ==
  IF f.enabledTools # None /\ Cardinality(f.enabledTools[1]) > 0
  THEN toolId \in f.enabledTools[1]
  ELSE toolId \in WebsetAvailableTools

\* tools.some(tool => shouldRegisterTool(tool))
SomeEnabled(f, tools) == \E t \in tools : wsShouldRegisterTool(f, t)

needsManagement(f) == SomeEnabled(f, websetCoreTools \cup websetManagementTools)

needsSearch(f) == SomeEnabled(f, websetManagementTools \cap IncludesSearch)

needsEnrichment(f) == SomeEnabled(f, websetEnrichmentTools)

needsItems(f) == SomeEnabled(f, websetCoreTools \cap IncludesItem)

needsOperations(f) == SomeEnabled(f, websetAutomationTools \cup websetSystemTools)

needsExport(f) == SomeEnabled(f, websetExportTools)

needsBatch(f) == SomeEnabled(f, websetBatchTools)

\* the host calls the default export
WsInitialise ==
  /\ wsPc = "unloaded"
  /\ wsConfig' \in WsConfigs
  /\ wsEnv' \in WsEnvs
  /\ wsPc' = "resolve"
  /\ UNCHANGED <<finalConfig, wsExposed, wsRegistered, wsThrown>>
  /\ UNCHANGED websetOthers

\* finalConfig is built and the key checked; the catch block rethrows
WsResolve ==
  /\ wsPc = "resolve"
  /\ finalConfig' = Resolve(wsConfig, wsEnv)
  /\ IF KeyMissing(finalConfig')
     THEN /\ wsThrown' = Some("EXA_API_KEY is required but not provided in config or environment")
          /\ wsPc' = "failed"
          /\ UNCHANGED wsEnv
     ELSE /\ wsEnv' = [wsEnv EXCEPT !.EXA_API_KEY = finalConfig'.exaApiKey]
          /\ wsPc' = "management"
          /\ UNCHANGED wsThrown
  /\ UNCHANGED <<wsConfig, wsExposed, wsRegistered>>
  /\ UNCHANGED websetOthers

\* if (needsX) { registerX(server, finalConfig) }
WsRegisterGroup(at, needed, tools, next) ==
  /\ wsPc = at
  /\ wsExposed' = IF needed THEN wsExposed \cup tools ELSE wsExposed
  /\ wsPc' = next
  /\ UNCHANGED <<wsConfig, wsEnv, finalConfig, wsRegistered, wsThrown>>
  /\ UNCHANGED websetOthers

WsManagement ==
  WsRegisterGroup("management", needsManagement(finalConfig),
                  registerWebsetManagementTools, "search")

WsSearch ==
  WsRegisterGroup("search", needsSearch(finalConfig), registerWebsetSearchTools, "enrichment")

WsEnrichment ==
  WsRegisterGroup("enrichment", needsEnrichment(finalConfig),
                  registerWebsetEnrichmentTools, "items")

WsItems ==
  WsRegisterGroup("items", needsItems(finalConfig), registerWebsetItemTools, "operations")

WsOperations ==
  WsRegisterGroup("operations", needsOperations(finalConfig),
                  registerWebsetOperationTools, "export")

WsExport ==
  WsRegisterGroup("export", needsExport(finalConfig), registerWebsetExportTools, "batch")

WsBatch ==
  WsRegisterGroup("batch", needsBatch(finalConfig), registerWebsetBatchTools, "track")

\* allWebsetTools.forEach: the enabled names are pushed onto registeredTools
WsTrack ==
  /\ wsPc = "track"
  /\ wsRegistered' = {t \in allWebsetTools : wsShouldRegisterTool(finalConfig, t)}
  /\ wsPc' = "return"
  /\ UNCHANGED <<wsConfig, wsEnv, finalConfig, wsExposed, wsThrown>>
  /\ UNCHANGED websetOthers

\* return server.server
WsReturn ==
  /\ wsPc = "return"
  /\ wsPc' = "serving"
  /\ UNCHANGED <<wsConfig, wsEnv, finalConfig, wsExposed, wsRegistered, wsThrown>>
  /\ UNCHANGED websetOthers

WebsetNext ==
  \/ WsInitialise
  \/ WsResolve
  \/ WsManagement
  \/ WsSearch
  \/ WsEnrichment
  \/ WsItems
  \/ WsOperations
  \/ WsExport
  \/ WsBatch
  \/ WsTrack
  \/ WsReturn

SpecWebsets == Init /\ [][WebsetNext]_vars

(***************************************************************************)
(* get_contents_exa: the URL count is checked, the request built and sent, *)
(* the response rendered.  The calls here leave highlights, summary,       *)
(* subpages and extras out.                                                *)
(***************************************************************************)
\* args.urls: n URLs
UrlList(n) == [i \in 1..n |-> "https://example.com/p"]

\* args.text: a boolean, or an object with optional maxCharacters, includeHtmlTags
TextOptions ==
  {[kind |-> "bool", b |-> b, maxCharacters |-> None, includeHtmlTags |-> None] :
     b \in BOOLEAN}
  \cup [kind : {"obj"}, b : {FALSE}, maxCharacters : {None, Some(0), Some(500)},
        includeHtmlTags : {None, Some(TRUE)}]

ContentsArgs ==
  [urls : {UrlList(n) : n \in 0..MaxUrls},
   text : {None} \cup {Some(t) : t \in TextOptions},
   livecrawl : {None, Some("always")}]

\* mutant: the limit is checked one too late
TooManyUrls_OffByOne(urls) == Len(urls) > MaxUrlsPerRequest + 1

\* args.urls.length > 10
TooManyUrls(urls) == Len(urls) > MaxUrlsPerRequest

TooManyUrlsResult ==
  ErrorResult(<<"Error: Maximum 10 URLs allowed per request. Please split your request into smaller batches.">>)

\* contentsRequest.text
ContentsText(a) ==
  IF a.text = None THEN JObj(<<Member("maxCharacters", JNum(DEFAULT_MAX_CHARACTERS))>>)
  ELSE IF a.text[1].kind = "bool" THEN JBool(a.text[1].b)
  ELSE JObj(<<
    Member("maxCharacters",
           JNum(IF a.text[1].maxCharacters # None /\ a.text[1].maxCharacters[1] # 0
                THEN a.text[1].maxCharacters[1] ELSE DEFAULT_MAX_CHARACTERS)),
    Member("includeHtmlTags",
           IF a.text[1].includeHtmlTags = None THEN JUndef
           ELSE JBool(a.text[1].includeHtmlTags[1]))>>)

\* the body of the contents request
ContentsRequest(a) ==
  JObj(<<
    Member("urls", JArr([i \in 1..Len(a.urls) |-> JStr(a.urls[i])])),
    Member("text", ContentsText(a)),
    Member("livecrawl", IF TruthyStr(a.livecrawl) THEN JStr(a.livecrawl[1]) ELSE JStr("fallback"))>>)

\* axiosInstance.post(API_CONFIG.ENDPOINTS.CONTENTS, contentsRequest)
ContentsPost(a) == [method |-> "POST", url |-> <<"/contents">>, body |-> ContentsRequest(a)]

\* a result of the provider: url and title, nothing else
ContentResult(i, url) ==
  JObj(<<
    Member("index", JNum(i)),
    Member("url", JStr(url)),
    Member("title", JStr("T")),
    Member("status", JStr("success"))>>)

\* ExaContentsResponse bodies: results missing, or one result per URL of some list
ContentsBodies(a) ==
  {[requestId |-> Some("r1"), results |-> None]}
  \cup {[requestId |-> Some("r1"), results |-> Some(l)] : l \in {<<>>, a.urls}}

ContentsOutcomes(a) ==
  {HttpFail(e) : e \in AxiosErrors} \cup
  {HttpOk(None)} \cup
  {HttpOk(Some(b)) : b \in ContentsBodies(a)}

\* reading response.data.results of a response without a body
TypeErrorResults == PlainError("Cannot read properties of undefined (reading 'results')")

\* JSON.stringify(formattedResults)
FormattedContents(body) ==
  JSONStringify(JObj(<<
    Member("requestId", OptStr(body.requestId)),
    Member("urlsProcessed", JNum(Len(body.results[1]))),
    Member("results",
           JArr([i \in 1..Len(body.results[1]) |-> ContentResult(i, body.results[1][i])]))>>))

\* what the handler makes of the response
ContentsAnswer(out) ==
  IF out.error # None THEN CatchResult("Content retrieval error", out.error[1])
  ELSE IF out.data = None THEN CatchResult("Content retrieval error", TypeErrorResults)
  ELSE IF out.data[1].results = None
  THEN TextResult(<<"No content retrieved. The URLs may be inaccessible or blocked.">>)
  ELSE TextResult(FormattedContents(out.data[1]))

\* the host calls get_contents_exa: the count is checked, the request is sent
CtInvoke ==
  /\ ctPc = "idle"
  /\ \E a \in ContentsArgs :
       /\ ctArgs' = a
       /\ IF TooManyUrls(a.urls)
          THEN /\ ctResult' = TooManyUrlsResult
               /\ ctPc' = "done"
               /\ UNCHANGED ctRequests
          ELSE /\ ctRequests' = Append(ctRequests, ContentsPost(a))
               /\ ctPc' = "post"
               /\ UNCHANGED ctResult
  /\ UNCHANGED contentsOthers

\* the provider answers and the handler returns
CtRespond ==
  /\ ctPc = "post"
  /\ \E out \in ContentsOutcomes(ctArgs) : ctResult' = ContentsAnswer(out)
  /\ ctPc' = "done"
  /\ UNCHANGED <<ctArgs, ctRequests>>
  /\ UNCHANGED contentsOthers

ContentsNext ==
  \/ CtInvoke
  \/ CtRespond

SpecContents == Init /\ [][ContentsNext]_vars

(***************************************************************************)
(* create_webset_enrichment_exa: the request body is built, the options    *)
(* requirement is checked, the enrichment is posted.                       *)
(***************************************************************************)
\* z.enum of the schema
EnrichmentFormats == {"text", "date", "number", "options", "email", "phone"}

\* lists of option labels, the empty list among them
OptionLists == {<<>>, <<"A">>, <<"A", "B">>}

EnrichmentArgs ==
  [websetId : {"ws1", "ws2"},
   description : {"find the CEO"},
   format : {None} \cup {Some(f) : f \in EnrichmentFormats},
   options : {None} \cup {Some(l) : l \in OptionLists},
   metadata : {None, Some("m")}]

\* mutant: an empty list counts as no list
OptionsMissing_EmptyToo(a) ==
  a.format = Some("options") /\ (a.options = None \/ a.options[1] = <<>>)

\* enrichmentData.format === 'options' && !enrichmentData.options
OptionsMissing(a) == a.format = Some("options") /\ ~TruthyObj(a.options)

OptionsMissingResult ==
  ErrorResult(<<"Error: 'options' format requires providing option labels">>)

\* requestBody: members of falsy arguments are not spread in
EnrichmentBody(a) ==
  JObj(<<
    Member("description", JStr(a.description)),
    Member("format", IF TruthyStr(a.format) THEN JStr(a.format[1]) ELSE JUndef),
    Member("options",
           IF TruthyObj(a.options)
           THEN JArr([i \in 1..Len(a.options[1]) |->
                        JObj(<<Member("label", JStr(a.options[1][i]))>>)])
           ELSE JUndef),
    Member("metadata",
           IF TruthyObj(a.metadata)
           THEN JObj(<<Member("k", JStr(a.metadata[1]))>>) ELSE JUndef)>>)

\* API_CONFIG.ENDPOINTS.WEBSET_ENRICHMENTS.replace(':websetId', websetId)
EnrichmentsUrl(websetId) == <<"/websets/v0/websets/", websetId, "/enrichments">>

\* axiosInstance.post(url, requestBody)
EnrichmentPost(a) ==
  [method |-> "POST", url |-> EnrichmentsUrl(a.websetId), body |-> EnrichmentBody(a)]

EnrichmentOutcomes ==
  {HttpFail(e) : e \in AxiosErrors} \cup
  {HttpOk(None), HttpOk(Some([id |-> "enrich_1"]))}

\* reading response.data.id of a response without a body
TypeErrorId == PlainError("Cannot read properties of undefined (reading 'id')")

\* what the handler makes of the response
EnrichmentAnswer(out) ==
  IF out.error # None THEN CatchResult("Create enrichment error", out.error[1])
  ELSE IF out.data = None THEN CatchResult("Create enrichment error", TypeErrorId)
  ELSE TextResult(JSONStringify(JObj(<<Member("id", JStr(out.data[1].id))>>)))

\* the host calls the tool: the requirement is checked, the request is sent
EnInvoke ==
  /\ enPc = "idle"
  /\ \E a \in EnrichmentArgs :
       /\ enArgs' = a
       /\ IF OptionsMissing(a)
          THEN /\ enResult' = OptionsMissingResult
               /\ enPc' = "done"
               /\ UNCHANGED enRequests
          ELSE /\ enRequests' = Append(enRequests, EnrichmentPost(a))
               /\ enPc' = "post"
               /\ UNCHANGED enResult
  /\ UNCHANGED enrichmentOthers

\* the provider answers and the handler returns
EnRespond ==
  /\ enPc = "post"
  /\ \E out \in EnrichmentOutcomes : enResult' = EnrichmentAnswer(out)
  /\ enPc' = "done"
  /\ UNCHANGED <<enArgs, enRequests>>
  /\ UNCHANGED enrichmentOthers

EnrichmentNext ==
  \/ EnInvoke
  \/ EnRespond

SpecEnrichment == Init /\ [][EnrichmentNext]_vars

(***************************************************************************)
(* search_webset_items_exa: every page of the webset's items is fetched,   *)
(* the items are filtered locally, the result is rendered.  Texts that a   *)
(* pattern is tested against are sequences of characters.                  *)
(***************************************************************************)
\* WebsetItem: the members the handler reads; enrichedData by its number of keys
Item1 ==
  [id |-> "i1", url |-> <<"A", "c", "m", "e">>, title |-> Some(<<"A", "c", "m", "e">>),
   type |-> Some("company"), verification |-> Some("verified"), enrichedData |-> Some(1)]

Item2 ==
  [id |-> "i2", url |-> <<"b", "o", "b">>, title |-> None,
   type |-> Some("person"), verification |-> None, enrichedData |-> Some(0)]

Item3 ==
  [id |-> "i3", url |-> <<"a", "c", "e">>, title |-> Some(<<"M", "E">>),
   type |-> Some("company"), verification |-> Some("pending"), enrichedData |-> None]

Item4 ==
  [id |-> "i4", url |-> <<"m", "e">>, title |-> Some(<<>>),
   type |-> None, verification |-> Some("verified"), enrichedData |-> Some(1)]

\* response.data.data of one page
ItemPages == {<<>>, <<Item1, Item2>>, <<Item3, Item4>>}

\* the item list of a webset, as the provider pages it
ItemBooks == UNION {[1..n -> ItemPages] : n \in 1..MaxPages}

\* patterns: literal text, the empty pattern, and one that does not compile
UrlPatterns == {<<>>, <<"a", "c">>, <<"(">>}

TitlePatterns == {<<>>, <<"m", "e">>}

ItemFilters ==
  [type : {None, Some(""), Some("company")},
   verificationStatus : {None, Some("verified")},
   hasEnrichedData : {None, Some(TRUE), Some(FALSE)},
   urlPattern : {None} \cup {Some(q) : q \in UrlPatterns},
   titlePattern : {None} \cup {Some(q) : q \in TitlePatterns}]

ItemsArgs ==
  [websetId : {"ws1"}, filters : {None} \cup {Some(f) : f \in ItemFilters}]

\* the cursor that addresses page k
CursorOf(k) == "p" \o ToString(k)

\* the page a request addresses: the first one when it carries no cursor
PageOf(params) ==
  IF params.cursor = None THEN 1
  ELSE CHOOSE k \in 1..(MaxPages + 1) : CursorOf(k) = params.cursor[1]

\* PaginatedList: the page with the flags of a provider that pages properly
PageProper(book, k) ==
  [data |-> book[k], hasMore |-> k < Len(book),
   nextCursor |-> IF k < Len(book) THEN Some(CursorOf(k + 1)) ELSE None]

\* PaginatedList: hasMore = true and no nextCursor
PageNoCursor(book, k) == [data |-> book[k], hasMore |-> TRUE, nextCursor |-> None]

ItemsOutcomes(book, k) ==
  {HttpFail(e) : e \in AxiosErrors} \cup
  {HttpOk(None), HttpOk(Some(PageProper(book, k))), HttpOk(Some(PageNoCursor(book, k)))}

\* API_CONFIG.ENDPOINTS.WEBSET_ITEMS.replace(':websetId', websetId)
ItemsUrl(websetId) == <<"/websets/v0/websets/", websetId, "/items">>

\* params: the cursor when there is one, and the limit
ItemsParams(cursor) ==
  [cursor |-> IF TruthyStr(cursor) THEN cursor ELSE None, limit |-> "100"]

\* axiosInstance.get(url, { params })
ItemsGet(websetId, cursor) ==
  [method |-> "GET", url |-> ItemsUrl(websetId), params |-> ItemsParams(cursor)]

\* reading response.data.data of a response without a body
TypeErrorData == PlainError("Cannot read properties of undefined (reading 'data')")

\* case folding of the 'i' flag, on the letters used here
ToLower(c) ==
  CASE c = "A" -> "a"
    [] c = "E" -> "e"
    [] c = "M" -> "m"
    [] OTHER -> c

\* new RegExp(pattern, 'i') compiles
PatternCompiles(pattern) == \A i \in 1..Len(pattern) : pattern[i] # "("

\* new RegExp(pattern, 'i').test(text), for a literal pattern
RegExpTest(pattern, text) ==
  \E k \in 0..(Len(text) - Len(pattern)) :
    \A j \in 1..Len(pattern) : ToLower(text[k + j]) = ToLower(pattern[j])

SyntaxErrorPattern == PlainError("Invalid regular expression: /(/i: Unterminated group")

\* item.enrichedData && Object.keys(item.enrichedData).length > 0
HasData(item) == item.enrichedData # None /\ item.enrichedData[1] > 0

\* a pattern argument that is given and not empty
TruthyText(o) == o # None /\ o[1] # <<>>

\* the filters the handler applies, one after the other
KeepType(f, item) == TruthyStr(f.type) => item.type = f.type

KeepVerification(f, item) ==
  TruthyStr(f.verificationStatus) => item.verification = f.verificationStatus

KeepEnriched(f, item) ==
  f.hasEnrichedData # None => (HasData(item) <=> f.hasEnrichedData[1])

KeepUrl(f, item) == TruthyText(f.urlPattern) => RegExpTest(f.urlPattern[1], item.url)

KeepTitle(f, item) ==
  TruthyText(f.titlePattern) =>
    (TruthyText(item.title) /\ RegExpTest(f.titlePattern[1], item.title[1]))

\* an item stays when every filter keeps it
Keep(f, item) ==
  /\ KeepType(f, item)
  /\ KeepVerification(f, item)
  /\ KeepEnriched(f, item)
  /\ KeepUrl(f, item)
  /\ KeepTitle(f, item)

\* filteredItems
FilterItems(filters, items) ==
  IF filters = None THEN items
  ELSE LET Test(item) == Keep(filters[1], item) IN SelectSeq(items, Test)

\* a pattern of the filters makes new RegExp throw
FilterThrows(filters) ==
  /\ filters # None
  /\ TruthyText(filters[1].urlPattern)
  /\ ~PatternCompiles(filters[1].urlPattern[1])

RECURSIVE Join(_)
\* the string of a sequence of characters
Join(cs) == IF cs = <<>> THEN "" ELSE Head(cs) \o Join(Tail(cs))

OptText(o) == IF o = None THEN JUndef ELSE JStr(Join(o[1]))

\* one entry of formattedResult.items
ItemJSON(item) ==
  JObj(<<
    Member("id", JStr(item.id)),
    Member("url", JStr(Join(item.url))),
    Member("title", OptText(item.title)),
    Member("type", OptStr(item.type)),
    Member("verification",
           IF item.verification = None THEN JUndef
           ELSE JObj(<<Member("status", JStr(item.verification[1]))>>)),
    Member("enrichedData",
           IF item.enrichedData = None THEN JUndef
           ELSE JObj([i \in 1..item.enrichedData[1] |-> Member("k", JStr("v"))]))>>)

FiltersJSON(filters) ==
  IF filters = None THEN JUndef
  ELSE JObj(<<
    Member("type", OptStr(filters[1].type)),
    Member("verificationStatus", OptStr(filters[1].verificationStatus)),
    Member("hasEnrichedData",
           IF filters[1].hasEnrichedData = None THEN JUndef
           ELSE JBool(filters[1].hasEnrichedData[1])),
    Member("urlPattern", OptText(filters[1].urlPattern)),
    Member("titlePattern", OptText(filters[1].titlePattern))>>)

\* formattedResult
FormattedItems(a, allItems) ==
  [websetId |-> a.websetId,
   totalItems |-> Len(allItems),
   matchingItems |-> Len(FilterItems(a.filters, allItems)),
   filters |-> a.filters,
   items |-> FilterItems(a.filters, allItems)]

\* JSON.stringify(formattedResult, null, 2)
FormattedItemsText(f) ==
  JSONStringify(JObj(<<
    Member("websetId", JStr(f.websetId)),
    Member("totalItems", JNum(f.totalItems)),
    Member("matchingItems", JNum(f.matchingItems)),
    Member("filters", FiltersJSON(f.filters)),
    Member("items", JArr([i \in 1..Len(f.items) |-> ItemJSON(f.items[i])]))>>))

\* the host calls the tool on a webset whose items the provider pages
SiInvoke ==
  /\ siPc = "idle"
  /\ \E a \in ItemsArgs, book \in ItemBooks :
       /\ siArgs' = a
       /\ siBook' = book
  /\ siPc' = "loop"
  /\ UNCHANGED <<siCursor, siAllItems, siRequests, siFormatted, siResult>>
  /\ UNCHANGED itemsOthers

\* one turn of while (hasMore): a page is requested and its answer taken in
SiFetch ==
  /\ siPc = "loop"
  /\ Len(siRequests) < MaxFetches
  /\ LET request == ItemsGet(siArgs.websetId, siCursor)
     IN /\ siRequests' = Append(siRequests, request)
        /\ \E out \in ItemsOutcomes(siBook, PageOf(request.params)) :
             IF out.error # None
             THEN /\ siResult' = CatchResult("Search items error", out.error[1])
                  /\ siPc' = "done"
                  /\ UNCHANGED <<siAllItems, siCursor>>
             ELSE IF out.data = None
             THEN /\ siResult' = CatchResult("Search items error", TypeErrorData)
                  /\ siPc' = "done"
                  /\ UNCHANGED <<siAllItems, siCursor>>
             ELSE /\ siAllItems' = siAllItems \o out.data[1].data
                  /\ siCursor' = IF TruthyStr(out.data[1].nextCursor)
                                 THEN out.data[1].nextCursor ELSE None
                  /\ siPc' = IF out.data[1].hasMore THEN "loop" ELSE "filter"
                  /\ UNCHANGED siResult
  /\ UNCHANGED <<siArgs, siBook, siFormatted>>
  /\ UNCHANGED itemsOthers

\* the loop is over: the items are filtered and the result returned
SiFilter ==
  /\ siPc = "filter"
  /\ IF FilterThrows(siArgs.filters)
     THEN /\ siResult' = CatchResult("Search items error", SyntaxErrorPattern)
          /\ UNCHANGED siFormatted
     ELSE /\ siFormatted' = FormattedItems(siArgs, siAllItems)
          /\ siResult' = TextResult(FormattedItemsText(siFormatted'))
  /\ siPc' = "done"
  /\ UNCHANGED <<siArgs, siBook, siCursor, siAllItems, siRequests>>
  /\ UNCHANGED itemsOthers

ItemsNext ==
  \/ SiInvoke
  \/ SiFetch
  \/ SiFilter

SpecItems == Init /\ [][ItemsNext]_vars

(***************************************************************************)
(* Vocabulary of the properties.                                           *)
(***************************************************************************)
Elapsed == now - startTime

TextOf(r) == r.content[1].text

Returned(r) == Len(r.content) = 1

IsErrorResult(r) == Returned(r) /\ r.isError = Some(TRUE)

IsTimedOut(r) ==
  Returned(r) /\ TextOf(r)[1] = "Research task is still processing. Task ID: "

\* the result of the catch block for an error that is not an axios error
IsResearchFailure(r) ==
  IsErrorResult(r) /\ TextOf(r)[1] = "Research error" /\ TextOf(r)[2] = ": "

Polling == pc \in {"loop", "sleep", "read"}

\* ceil(maxPollingTime / pollingInterval)
MaxReads == (maxPollingTime + pollingInterval - 1) \div pollingInterval

\* the submission failed or its response names no task
SubmissionFailed(out) ==
  \/ out.error # None
  \/ out.data = None
  \/ out.data[1].taskId = None
  \/ out.data[1].taskId[1] = ""

(***************************************************************************)
(* C1: once a status read of deep_research_exa reports 'failed', the       *)
(* handler has returned its failure result and no sleep, loop check or     *)
(* status read can follow, at whatever read the failure is seen.           *)
(***************************************************************************)
C1_FailedEndsPolling ==
  lastStatus = Some("failed") =>
    /\ pc = "done"
    /\ IsResearchFailure(result)
    /\ caught # None /\ ~caught[1].axios
    /\ ~ENABLED LoopCheck
    /\ ~ENABLED Sleep
    /\ ~ENABLED PollStatus

\* the failure is seen on the first check
C1_Witness ==
  /\ lastStatus = Some("failed")
  /\ pc = "done"
  /\ gets = 1
  /\ sleeps = 1

(***************************************************************************)
(* C3: when the loop ends without a terminal status and without an error,  *)
(* the handler returns the timeout notice, which carries the taskId of the *)
(* submission response and is not flagged as an error.                     *)
(***************************************************************************)
C3_TimedOutCarriesTaskId ==
  (pc = "done" /\ caught = None /\ statusResponse = None) =>
    /\ Returned(result)
    /\ IsTimedOut(result)
    /\ TextOf(result)[2] = taskResponse[1].data[1].taskId[1]
    /\ result.isError = None

\* a timeout after fewer reads than the maximum, for the second task id
C3_Witness ==
  /\ pc = "done"
  /\ IsTimedOut(result)
  /\ TextOf(result)[2] = "t2"
  /\ lastStatus = Some("processing")
  /\ gets > 0 /\ gets < MaxReads

(***************************************************************************)
(* C4: when the submission fails or its response names no task, exactly    *)
(* one submission request was sent, the poll loop was never entered and    *)
(* the handler returned an error result; the loop never runs with an empty *)
(* or undefined task identifier.                                           *)
(***************************************************************************)
C4_SubmissionFailureIsFatal ==
  /\ (taskResponse # None /\ SubmissionFailed(taskResponse[1])) =>
       /\ pc = "done"
       /\ posts = 1
       /\ sleeps = 0
       /\ gets = 0
       /\ IsErrorResult(result)
  /\ Polling => taskId \notin {"", "undefined"}
  /\ posts <= 1

\* a 2xx submission response whose body has no taskId
C4_Witness ==
  /\ pc = "done"
  /\ taskResponse # None
  /\ taskResponse[1].error = None
  /\ taskResponse[1].data # None
  /\ taskResponse[1].data[1].taskId = None
  /\ IsErrorResult(result)

(***************************************************************************)
(* C5: every status read of the poll loop comes right after one sleep of   *)
(* pollingInterval: sleeps and reads alternate, starting with a sleep, and *)
(* every sleep lasts pollingInterval whatever the round or the status seen. *)
(***************************************************************************)
C5_SleepBeforeEachRead ==
  /\ [](sleeps = IF pc = "read" THEN gets + 1 ELSE gets)
  /\ [][sleeps' # sleeps =>
          sleeps' = sleeps + 1 /\ gets' = gets /\ now' = now + pollingInterval]_vars
  /\ [][gets' # gets =>
          gets' = gets + 1 /\ sleeps' = sleeps /\ pc = "read"]_vars

\* a third round after two non-terminal answers
C5_Witness ==
  /\ pc = "read"
  /\ sleeps = 3
  /\ gets = 2
  /\ lastStatus = Some("pending")

(***************************************************************************)
(* C6: a round starts only while the elapsed time is below maxPollingTime, *)
(* the handler gives up with the timeout notice only at or after it, no    *)
(* status read starts at maxPollingTime + pollingInterval or later, and at *)
(* most ceil(maxPollingTime / pollingInterval) status reads are sent.      *)
(***************************************************************************)
C6_DeadlineBoundsPolling ==
  /\ pc = "sleep" => Elapsed < maxPollingTime
  /\ pc = "read" => Elapsed < maxPollingTime + pollingInterval
  /\ (pc = "done" /\ IsTimedOut(result)) => Elapsed >= maxPollingTime
  /\ (pc = "loop" /\ Elapsed >= maxPollingTime) => ~ENABLED Sleep
  /\ gets <= MaxReads
  /\ MaxReads = 40

\* the maximum number of reads, then the timeout
C6_Witness ==
  /\ pc = "done"
  /\ IsTimedOut(result)
  /\ gets = MaxReads

(***************************************************************************)
(* Vocabulary of the properties about rendered results.                    *)
(***************************************************************************)
Contains(text, part) == \E i \in 1..Len(text) : text[i] = part

IsInfix(sub, text) ==
  \E i \in 0..(Len(text) - Len(sub)) : SubSeq(text, i + 1, i + Len(sub)) = sub

IsReportRendering(text) == text[1] = "# Research Report: "

IsJsonDocument(text) == text[1] = "{" /\ text[Len(text)] = "}"

\* the body carries a narrative report / a structured-data document
CarriesReport(body) ==
  body.result # None /\ body.result[1].report \notin {None, Some("")}

CarriesData(body) == body.result # None /\ body.result[1].data # None

ReportIn(body) == body.result[1].report[1]

DataIn(body) == body.result[1].data[1]

\* deep_research_exa returned a rendering of a completed task
CompletedOutcome ==
  /\ pc = "done"
  /\ lastStatus = Some("completed")
  /\ statusResponse # None
  /\ Returned(result)
  /\ result.isError = None

(***************************************************************************)
(* C2: when a status read of the running loop reports 'completed' with a   *)
(* report or with data, the handler returns at once a non-error result     *)
(* that renders the variant carried (report: the titled text block, data:  *)
(* a JSON document), never the timeout notice or an error.                 *)
(***************************************************************************)
C2_CompletedIsReturned ==
  lastStatus = Some("completed") =>
    /\ pc = "done"
    /\ statusResponse # None
    /\ LET b == statusResponse[1]
       IN (CarriesReport(b) \/ CarriesData(b)) =>
            /\ Returned(result)
            /\ result.isError = None
            /\ caught = None
            /\ ~IsTimedOut(result)
            /\ IF CarriesReport(b)
               THEN /\ IsReportRendering(TextOf(result))
                    /\ Contains(TextOf(result), ReportIn(b))
               ELSE /\ IsJsonDocument(TextOf(result))
                    /\ IsInfix(JSONStringify(JObj(DataIn(b))), TextOf(result))

\* two non-terminal answers, then completed with a report
C2_Witness ==
  /\ CompletedOutcome
  /\ gets = 3
  /\ CarriesReport(statusResponse[1])
  /\ SubSeq(TextOf(result), 1, 2) = <<"# Research Report: ", "X">>

(***************************************************************************)
(* C8: when a status read reports 'completed' without a result, or with a  *)
(* result that has neither a report nor data, the handler ends with an     *)
(* error result and sends no further status read.                          *)
(***************************************************************************)
C8_CompletedWithoutResultIsFatal ==
  lastStatus = Some("completed") =>
    /\ pc = "done"
    /\ statusResponse # None
    /\ LET b == statusResponse[1]
       IN (~CarriesReport(b) /\ ~CarriesData(b)) =>
            /\ IsResearchFailure(result)
            /\ ~IsTimedOut(result)
            /\ ~ENABLED Sleep
            /\ ~ENABLED PollStatus

\* completed, and no result at all
C8_Witness ==
  /\ pc = "done"
  /\ lastStatus = Some("completed")
  /\ statusResponse # None
  /\ statusResponse[1].result = None
  /\ IsResearchFailure(result)

(***************************************************************************)
(* C9: a rendering of a completed task with a report contains the report,  *)
(* the query and the task identifier; one with data and no report is a     *)
(* JSON document with the task identifier and the data as delivered, and   *)
(* without report text.                                                    *)
(***************************************************************************)
C9_RenderingCarriesPayload ==
  CompletedOutcome =>
    LET b == statusResponse[1]
        text == TextOf(result)
    IN /\ CarriesReport(b) =>
            /\ Contains(text, ReportIn(b))
            /\ Contains(text, args.query)
            /\ Contains(text, taskId)
       /\ (~CarriesReport(b) /\ CarriesData(b)) =>
            /\ IsJsonDocument(text)
            /\ IsInfix(<<Quote("taskId") \o ":", Quote(taskId)>>, text)
            /\ IsInfix(<<Quote("structuredData") \o ":">>
                         \o JSONStringify(JObj(DataIn(b))), text)
            /\ ~Contains(text, "# Research Report: ")
            /\ b.result[1].report # None => ~Contains(text, ReportIn(b))

\* a structured-data rendering
C9_Witness ==
  /\ CompletedOutcome
  /\ ~CarriesReport(statusResponse[1])
  /\ CarriesData(statusResponse[1])
  /\ IsJsonDocument(TextOf(result))
  /\ taskId = "t2"

(***************************************************************************)
(* C10: a rendering of a completed task is either the report rendering or  *)
(* the structured-data rendering and never both: the report rendering      *)
(* whenever a report is carried, also next to data, the structured-data    *)
(* rendering only when data is carried and no report.                      *)
(***************************************************************************)
C10_ExactlyOneRendering ==
  CompletedOutcome =>
    LET b == statusResponse[1]
        text == TextOf(result)
    IN /\ IsReportRendering(text) # IsJsonDocument(text)
       /\ CarriesReport(b) =>
            /\ IsReportRendering(text)
            /\ ~Contains(text, "{")
            /\ ~Contains(text, Quote("structuredData") \o ":")
       /\ IsJsonDocument(text) =>
            /\ ~CarriesReport(b)
            /\ CarriesData(b)
            /\ ~Contains(text, "# Research Report: ")

\* a result with both a report and data
C10_Witness ==
  /\ CompletedOutcome
  /\ CarriesReport(statusResponse[1])
  /\ CarriesData(statusResponse[1])
  /\ IsReportRendering(TextOf(result))

(***************************************************************************)
(* The outcome each handler gives a status body.                           *)
(***************************************************************************)
\* the outcome of the poll loop's decoding of a body
PollClass(d, body) ==
  CASE d.kind = "return" -> "Completed"
    [] d.kind = "continue" -> "Pending"
    [] d.kind = "throw" /\ body.status = Some("failed") -> "Failed"
    [] OTHER -> "error"

\* the outcome a result of check_research_status_exa stands for
CheckClass(r) ==
  CASE IsErrorResult(r) -> "error"
    [] TextOf(r)[1] = "# Research Report (Task: " -> "Completed"
    [] Contains(TextOf(r), Quote("data") \o ":") -> "Completed"
    [] IsInfix(<<Quote("status") \o ":", Quote("failed")>>, TextOf(r)) -> "Failed"
    [] OTHER -> "Pending"

(***************************************************************************)
(* C7: check_research_status_exa and the poll loop of deep_research_exa    *)
(* give every status body the same outcome (Completed, Failed, Pending or  *)
(* error).                                                                 *)
(***************************************************************************)
C7_SameClassification ==
  (chkPc = "done" /\ chkResponse[1].error = None /\ chkResponse[1].data # None) =>
    LET body == chkResponse[1].data[1]
    IN CheckClass(chkResult) = PollClass(PollDecode(args, chkTaskId, body), body)

(***************************************************************************)
(* C11: the JSON document of the structured-data rendering always holds    *)
(* the task identifier, the payload and a boolean schemaUsed, which is     *)
(* true exactly when an outputSchema was supplied or llmGenerateSchema is  *)
(* true; the flag is never absent.                                         *)
(***************************************************************************)
SchemaRequested ==
  args.outputSchema # None \/ args.llmGenerateSchema = Some(TRUE)

C11_SchemaFlagAlwaysPresent ==
  (CompletedOutcome /\ IsJsonDocument(TextOf(result))) =>
    LET b == statusResponse[1]
        text == TextOf(result)
    IN /\ IsInfix(<<Quote("taskId") \o ":", Quote(taskId)>>, text)
       /\ IsInfix(<<Quote("structuredData") \o ":">>
                    \o JSONStringify(JObj(DataIn(b))), text)
       /\ IsInfix(<<Quote("schemaUsed") \o ":",
                    IF SchemaRequested THEN "true" ELSE "false">>, text)

(***************************************************************************)
(* C12: every finished call of deep_research_exa and of                    *)
(* check_research_status_exa has returned one result with one text item,   *)
(* whatever the provider did, and a call that has not finished can always  *)
(* take its next step (no error leaves the handler).                       *)
(***************************************************************************)
OneTextItem(r) ==
  /\ Len(r.content) = 1
  /\ r.content[1].type = "text"
  /\ Len(r.content[1].text) > 0

C12_AlwaysOneTextResult ==
  /\ pc = "done" => OneTextItem(result)
  /\ pc # "done" => result = NoResult
  /\ pc \in {"submit", "loop", "sleep", "read"} =>
       ENABLED (Submit \/ LoopCheck \/ Sleep \/ PollStatus)
  /\ chkPc = "done" => OneTextItem(chkResult)
  /\ chkPc # "done" => chkResult = NoResult
  /\ chkPc = "read" => ENABLED CheckStatus

\* a status response without a body, met in the poll loop
C12_Witness ==
  /\ pc = "done"
  /\ caught = Some(TypeErrorStatus)
  /\ gets = 2
  /\ OneTextItem(result)

(***************************************************************************)
(* C13: when a status read of the poll loop fails in axios, the handler    *)
(* returns an error result at once: no sleep and no read follows, and the  *)
(* result is neither the timeout notice nor a rendering.                   *)
(***************************************************************************)
\* the submission went through and the catch block received an axios error
StatusReadFailed ==
  /\ taskResponse # None
  /\ taskResponse[1].error = None
  /\ caught # None
  /\ caught[1].axios

C13_FailedReadIsFatal ==
  StatusReadFailed =>
    /\ pc = "done"
    /\ IsErrorResult(result)
    /\ SubSeq(TextOf(result), 1, 2) = <<"Research error", " (">>
    /\ ~IsTimedOut(result)
    /\ statusResponse = None
    /\ sleeps = gets
    /\ ~ENABLED LoopCheck
    /\ ~ENABLED Sleep
    /\ ~ENABLED PollStatus

\* the third read fails without a response
C13_Witness ==
  /\ StatusReadFailed
  /\ caught[1].response = None
  /\ gets = 3
  /\ pc = "done"

(***************************************************************************)
(* C14: the failure result for a 'failed' status carries the provider's    *)
(* error message when there is a non-empty one, and 'Research task failed' *)
(* when there is none.                                                     *)
(***************************************************************************)
C14_FailureMessage ==
  (lastStatus = Some("failed") /\ statusResponse # None) =>
    LET b == statusResponse[1]
    IN /\ (b.error # None /\ b.error[1] # "") =>
            TextOf(result) = <<"Research error", ": ", b.error[1]>>
       /\ b.error = None =>
            TextOf(result) = <<"Research error", ": ", "Research task failed">>

\* a failure without a message, after a non-terminal answer
C14_Witness ==
  /\ lastStatus = Some("failed")
  /\ statusResponse # None
  /\ statusResponse[1].error = None
  /\ gets = 2
  /\ TextOf(result)[3] = "Research task failed"

(***************************************************************************)
(* C15: polling only observes the provider's task.  The one request that   *)
(* is not a GET is the submission; every other request of                  *)
(* deep_research_exa and of check_research_status_exa is a GET of the      *)
(* status URL of the task it is about, which carries no body.  No status   *)
(* is kept between invocations: check_research_status_exa answers from a   *)
(* read of its own, also for a task deep_research_exa has read before.     *)
(***************************************************************************)
C15_ReadsOnlyObserve ==
  /\ \A r \in requests :
        \/ r = SubmitRequest("deep_research_exa") /\ posts = 1
        \/ /\ r.method = "GET"
           /\ \/ r.from = "deep_research_exa" /\ gets > 0 /\ r.url = StatusUrl(taskId)
              \/ r.from = "check_research_status_exa" /\ chkGets = 1
                 /\ r.url = StatusUrl(chkTaskId)
  /\ posts <= 1
  /\ gets > 0 => StatusRequest("deep_research_exa", taskId) \in requests
  /\ chkPc = "read" => chkResult = NoResult /\ chkGets = 0
  /\ chkPc = "done" =>
        /\ chkGets = 1
        /\ StatusRequest("check_research_status_exa", chkTaskId) \in requests
        /\ chkResponse # None
        /\ chkResult = CheckAnswer(chkTaskId, chkResponse[1])

\* deep_research_exa last read 'pending' and gave up; the check for the same
\* task read again and found it completed
C15_Witness ==
  /\ pc = "done" /\ IsTimedOut(result) /\ lastStatus = Some("pending")
  /\ chkPc = "done" /\ chkTaskId = taskId /\ chkGets = 1
  /\ chkResponse[1].data # None
  /\ chkResponse[1].data[1].status = Some("completed")
  /\ Cardinality(requests) = 3

(***************************************************************************)
(* C17: a task deep_research_exa gave up on can be picked up again.  A     *)
(* check_research_status_exa call with the identifier of the timeout       *)
(* notice reads the status URL of the very task that was polled, and when  *)
(* that read finds the task completed with a report or with data, the call *)
(* returns that report or that data, without an error flag.                *)
(***************************************************************************)
Resumed == pc = "done" /\ IsTimedOut(result) /\ chkPc # "idle"

C17_TimedOutTaskIsResumable ==
  Resumed =>
    /\ chkTaskId = taskId
    /\ StatusRequest("deep_research_exa", chkTaskId) \in requests
    /\ chkPc = "read" => ENABLED CheckStatus
    /\ (chkPc = "done" /\ chkResponse[1].data # None
          /\ chkResponse[1].data[1].status = Some("completed")) =>
         LET b == chkResponse[1].data[1]
         IN /\ CarriesReport(b) =>
                 /\ chkResult = TextResult(CheckReportText(taskId, ReportIn(b)))
                 /\ Contains(TextOf(chkResult), ReportIn(b))
            /\ (~CarriesReport(b) /\ CarriesData(b)) =>
                 /\ chkResult = TextResult(CheckDataText(taskId, b))
                 /\ IsInfix(JSONStringify(JObj(DataIn(b))), TextOf(chkResult))

C17_Witness ==
  /\ Resumed /\ chkPc = "done" /\ gets = MaxReads
  /\ chkResponse[1].data # None
  /\ chkResponse[1].data[1].status = Some("completed")
  /\ ~CarriesReport(chkResponse[1].data[1])
  /\ CarriesData(chkResponse[1].data[1])
  /\ IsJsonDocument(TextOf(chkResult))

(***************************************************************************)
(* C18: one call of check_research_status_exa sends exactly one status     *)
(* read for its taskId and nothing else, whatever the provider answers: no *)
(* submission, no sleep, no second read.  Its read is its only step, and   *)
(* that step moves neither the clock nor anything of deep_research_exa.    *)
(***************************************************************************)
CheckRequests == {r \in requests : r.from = "check_research_status_exa"}

C18_CheckReadsOnce ==
  /\ [](/\ chkGets = (IF chkPc = "done" THEN 1 ELSE 0)
        /\ chkPc = "done" =>
              /\ CheckRequests = {StatusRequest("check_research_status_exa", chkTaskId)}
              /\ chkResult # NoResult
              /\ ~ENABLED CheckStatus
        /\ chkPc # "done" => CheckRequests = {}
        /\ (chkPc # "idle" /\ pc = "idle") =>
              posts = 0 /\ sleeps = 0 /\ gets = 0 /\ now = 0)
  /\ [][chkGets' # chkGets =>
          /\ chkPc = "read" /\ chkPc' = "done"
          /\ now' = now /\ posts' = posts /\ sleeps' = sleeps /\ gets' = gets]_vars

\* the provider says 'pending' and the call returns after its one read
C18_Witness ==
  /\ chkPc = "done" /\ pc = "idle" /\ chkGets = 1
  /\ chkResponse[1].data # None
  /\ chkResponse[1].data[1].status = Some("pending")
  /\ chkResult = TextResult(CheckStatusText(chkTaskId, chkResponse[1].data[1]))

(***************************************************************************)
(* C19: every call of deep_research_exa returns, whatever the provider     *)
(* answers, also when it reports an unfinished task forever: provided      *)
(* sleeps end and provider calls return or fail, a call that has started   *)
(* reaches its return.  A round begins only before the deadline and takes  *)
(* a full interval of the time left, so the reads left never go below      *)
(* zero.                                                                   *)
(***************************************************************************)
ReadsLeft == MaxReads - gets

C19_EventuallyReturns ==
  /\ [](/\ ReadsLeft >= 0
        /\ pc \in {"sleep", "read"} => sleeps * pollingInterval < maxPollingTime + pollingInterval
        /\ pc = "sleep" => Elapsed < maxPollingTime
        /\ pc \in {"loop", "sleep", "read"} => sleeps * pollingInterval <= Elapsed)
  /\ (pc = "submit") ~> (pc = "done" /\ Returned(result))

\* the provider never reported a final status and the call returned all the same
C19_Witness ==
  /\ pc = "done" /\ Returned(result) /\ gets = MaxReads
  /\ lastStatus = Some("processing") /\ caught = None

(***************************************************************************)
(* C16: two calls of deep_research_exa in flight at once do not affect     *)
(* each other, however their sleeps and provider calls interleave.  Each   *)
(* call keeps its own args, taskId and startTime, asks only for its own    *)
(* task, reads as often as its own start time allows, and returns what its *)
(* own task's last response (or its own deadline) decides; a step of one   *)
(* call changes nothing the other call holds.                              *)
(***************************************************************************)
\* what call i returns on its own: decided by its last response, else by its deadline
OwnOutcome(i) ==
  LET d == IF last[i] = None THEN Continue
           ELSE PollDecode(PairArgs[i], PairTask[i], last[i][1])
  IN CASE d.kind = "return" -> d.result
       [] d.kind = "throw" -> CatchResult("Research error", d.error)
       [] d.kind = "continue" -> TimeoutResult(PairTask[i])

OwnState(i) ==
  /\ ppc[i] = "submit" => Local(i).args = PairArgs[i]
  /\ ppc[i] \in {"loop", "asleep", "read", "done"} =>
        /\ Local(i) = [args |-> PairArgs[i], taskId |-> PairTask[i], startTime |-> began[i]]
        /\ SubmitRequest("deep_research_exa") \in preqs[i]
  /\ preqs[i] \subseteq {SubmitRequest("deep_research_exa"),
                          StatusRequest("deep_research_exa", PairTask[i])}
  /\ reads[i] <= MaxReads
  /\ ppc[i] = "loop" => clock - began[i] = reads[i] * pollingInterval
  /\ ppc[i] = "asleep" => wake[i] - began[i] = (reads[i] + 1) * pollingInterval
                          /\ wake[i] - pollingInterval - began[i] < maxPollingTime
  /\ ppc[i] = "done" =>
        /\ outcome[i] = OwnOutcome(i)
        /\ IsTimedOut(outcome[i]) =>
              reads[i] = MaxReads /\ clock - began[i] >= maxPollingTime
  /\ ppc[i] # "done" => outcome[i] = NoResult

C16_ConcurrentCallsIndependent ==
  /\ [](\A i \in Calls : OwnState(i))
  /\ [][\A i \in Calls : \A j \in Calls \ {i} :
          ppc'[i] # ppc[i] =>
            /\ ppc'[j] = ppc[j] /\ Local(j)' = Local(j) /\ wake'[j] = wake[j]
            /\ began'[j] = began[j] /\ reads'[j] = reads[j] /\ last'[j] = last[j]
            /\ outcome'[j] = outcome[j] /\ preqs'[j] = preqs[j]]_vars

\* the second call began while the first was polling and got its report after
\* two reads; the first polled on to its own deadline
C16_Witness ==
  /\ ppc[1] = "done" /\ ppc[2] = "done"
  /\ began[1] = 0 /\ began[2] = 61000 /\ clock = maxPollingTime
  /\ outcome[1] = TimeoutResult("t1") /\ reads[1] = MaxReads
  /\ outcome[2] = TextResult(ReportText(PairArgs[2], "t2", "R")) /\ reads[2] = 2

(***************************************************************************)
(* C20: when config.enabledTools is a non-empty list, the server exposes   *)
(* no tool outside it: once the server is returned, the tools registered   *)
(* on it are a subset of enabledTools.                                     *)
(***************************************************************************)
EnabledList == config.enabledTools # None /\ config.enabledTools[1] # {}

C20_OnlyEnabledToolsExposed ==
  (rpc = "serving" /\ EnabledList) => exposed \subseteq config.enabledTools[1]

(***************************************************************************)
(* C26: the first terminal status read decides the outcome.  A status read *)
(* is followed by another only if it returned a non-terminal status, so    *)
(* the read that returned 'completed' or 'failed' is the last one and its  *)
(* number is the position of the first terminal status; the timeout notice *)
(* is returned only when every read returned a non-terminal status.        *)
(***************************************************************************)
Terminal == {Some("completed"), Some("failed")}

C26_FirstTerminalDecides ==
  /\ [](/\ (Polling /\ gets > 0) => lastStatus \notin Terminal
        /\ lastStatus \in Terminal =>
              /\ pc = "done" /\ ~IsTimedOut(result) /\ statusResponse # None
              /\ statusResponse[1].status = lastStatus
              /\ ~ENABLED PollStatus
        /\ (pc = "done" /\ IsTimedOut(result)) =>
              gets > 0 /\ lastStatus \notin Terminal /\ caught = None)
  /\ [][(gets' = gets + 1 /\ gets > 0) => lastStatus \notin Terminal]_vars

\* five reads returned 'processing', the sixth 'failed'
C26_Witness ==
  /\ pc = "done" /\ gets = 6 /\ lastStatus = Some("failed")
  /\ IsResearchFailure(result)

(***************************************************************************)
(* C27: in the poll loop every status other than 'completed' and 'failed'  *)
(* (pending, processing, none at all, an unknown value) is non-terminal:   *)
(* the read yields no result and no error and the loop goes on.  A read    *)
(* ends the call only when the request fails, the response has no body, or *)
(* the status is terminal.                                                 *)
(***************************************************************************)
C27_OtherStatusesKeepPolling ==
  /\ [](/\ \A b \in StatusBodies :
              b.status \notin Terminal => PollDecode(args, taskId, b) = Continue
        /\ (pc = "loop" /\ gets > 0) =>
              result = NoResult /\ caught = None /\ ENABLED LoopCheck)
  /\ [][gets' = gets + 1 =>
          \/ pc' = "loop" /\ lastStatus' \notin Terminal
          \/ pc' = "done" /\ lastStatus' \in Terminal /\ statusResponse' # None
          \/ pc' = "done" /\ caught' # None /\ statusResponse' = None
             /\ (caught'[1].axios \/ caught'[1] = TypeErrorStatus)]_vars

\* a response without a status, then one with an unknown status: still polling
C27_Witness ==
  /\ pc = "loop" /\ gets = 2 /\ lastStatus = Some("queued")
  /\ result = NoResult /\ caught = None

(***************************************************************************)
(* C21: when config.enabledTools is a non-empty list, every tool of it     *)
(* that is in the availableTools registry is registered on the Websets     *)
(* server once it is returned: no tool is reported in registeredTools      *)
(* without its register function having been called.                       *)
(***************************************************************************)
WsEnabledList == wsConfig.enabledTools # None /\ wsConfig.enabledTools[1] # {}

C21_EnabledToolsAreRegistered ==
  (wsPc = "serving" /\ WsEnabledList) =>
    /\ (wsConfig.enabledTools[1] \cap WebsetAvailableTools) \subseteq wsExposed
    /\ wsRegistered \subseteq wsExposed

(***************************************************************************)
(* C22: when enabledTools is not specified (absent, or an empty list),     *)
(* every tool of the availableTools registry is enabled and registered on  *)
(* the server, and no name outside the registry is reported as enabled.    *)
(***************************************************************************)
WsUnspecified == finalConfig.enabledTools = None \/ finalConfig.enabledTools[1] = {}

C22_DefaultRegistersAll ==
  (wsPc = "serving" /\ WsUnspecified) =>
    /\ \A t \in WebsetAvailableTools : wsShouldRegisterTool(finalConfig, t)
    /\ \A t \in WsToolIds \ WebsetAvailableTools : ~wsShouldRegisterTool(finalConfig, t)
    /\ wsRegistered = WebsetAvailableTools
    /\ WebsetAvailableTools \subseteq wsExposed

(***************************************************************************)
(* C23: the start of the Websets server fails with an error when neither   *)
(* the configuration nor EXA_API_KEY of the environment gives a key; then  *)
(* no server is returned, no tool is registered and process.env is as it   *)
(* was.  With a key the start does not fail on it.                         *)
(***************************************************************************)
NoKeyAvailable == ~TruthyStr(wsConfig.exaApiKey) /\ ~TruthyStr(wsEnv.EXA_API_KEY)

C23_MissingKeyFailsStart ==
  /\ [](/\ (wsPc \notin {"unloaded", "resolve"} /\ wsThrown # None) =>
              /\ wsPc = "failed" /\ NoKeyAvailable
              /\ wsExposed = {} /\ wsRegistered = {}
              /\ ~ENABLED WebsetNext
        /\ (wsPc \notin {"unloaded", "resolve", "failed"}) =>
              /\ wsThrown = None
              /\ TruthyStr(finalConfig.exaApiKey)
              /\ wsEnv.EXA_API_KEY = finalConfig.exaApiKey
        /\ wsPc = "failed" => wsThrown # None)
  /\ [][(wsPc = "resolve" /\ NoKeyAvailable) =>
          wsPc' = "failed" /\ wsThrown' # None /\ wsEnv' = wsEnv]_vars

\* an empty key in the configuration and none in the environment
C23_Witness ==
  /\ wsPc = "failed" /\ wsThrown # None
  /\ wsConfig.exaApiKey = Some("") /\ wsEnv.EXA_API_KEY = None
  /\ wsExposed = {}

(***************************************************************************)
(* C24: get_contents_exa takes at most 10 URLs.  Called with more, it      *)
(* returns an error result and sends nothing to the provider; called with  *)
(* 10 or fewer, it sends exactly one contents request, which carries the   *)
(* URLs of the call.                                                       *)
(***************************************************************************)
C24_AtMostTenUrls ==
  /\ MaxUrlsPerRequest = 10
  /\ ctPc # "idle" =>
        IF Len(ctArgs.urls) > 10
        THEN /\ ctPc = "done" /\ IsErrorResult(ctResult) /\ ctRequests = <<>>
        ELSE /\ Len(ctRequests) = 1
             /\ ctRequests[1].method = "POST" /\ ctRequests[1].url = <<"/contents">>
             /\ ctRequests[1].body.members[1].value
                  = JArr([i \in 1..Len(ctArgs.urls) |-> JStr(ctArgs.urls[i])])
  /\ ctPc = "done" => Returned(ctResult)
  /\ ctPc = "post" => ENABLED CtRespond

\* eleven URLs: refused without a request
C24_Witness ==
  /\ ctPc = "done" /\ Len(ctArgs.urls) = 11
  /\ ctResult = TooManyUrlsResult /\ ctRequests = <<>>

(***************************************************************************)
(* C29: create_webset_enrichment_exa called with format 'options' and no   *)
(* options list returns an error result and sends nothing to the provider; *)
(* for every other combination of format and options, the empty list       *)
(* included, it sends exactly one create request.                          *)
(***************************************************************************)
C29_OptionsFormatNeedsOptions ==
  /\ enPc # "idle" =>
        IF enArgs.format = Some("options") /\ enArgs.options = None
        THEN /\ enPc = "done" /\ IsErrorResult(enResult) /\ enRequests = <<>>
        ELSE /\ Len(enRequests) = 1
             /\ enRequests[1].method = "POST"
             /\ enRequests[1].url
                  = <<"/websets/v0/websets/", enArgs.websetId, "/enrichments">>
  /\ enPc = "done" => Returned(enResult)
  /\ enPc = "post" => ENABLED EnRespond

\* format 'options' without a list: refused without a request
C29_Witness ==
  /\ enPc = "done"
  /\ enArgs.format = Some("options") /\ enArgs.options = None
  /\ enResult = OptionsMissingResult /\ enRequests = <<>>

(***************************************************************************)
(* search_webset_items_exa: vocabulary.                                    *)
(***************************************************************************)
\* the call returned a result that is not an error
SiSucceeded == siPc = "done" /\ Returned(siResult) /\ ~IsErrorResult(siResult)

RECURSIVE ItemCount(_)
\* the number of items over all pages of an item list
ItemCount(book) ==
  IF book = <<>> THEN 0 ELSE Len(Head(book)) + ItemCount(Tail(book))

\* the item satisfies every filter that was supplied
SatisfiesSupplied(f, item) ==
  /\ f.type # None => item.type = f.type
  /\ f.verificationStatus # None => item.verification = f.verificationStatus
  /\ f.hasEnrichedData # None => (HasData(item) <=> f.hasEnrichedData[1])
  /\ f.urlPattern # None => RegExpTest(f.urlPattern[1], item.url)
  /\ f.titlePattern # None =>
       (item.title # None /\ RegExpTest(f.titlePattern[1], item.title[1]))

SuppliedMatches(filters, items) ==
  IF filters = None THEN items
  ELSE LET Test(item) == SatisfiesSupplied(filters[1], item) IN SelectSeq(items, Test)

(***************************************************************************)
(* C25: on success totalItems is the number of items over all pages of     *)
(* the provider's item list, the returned items are exactly the fetched    *)
(* items that satisfy every supplied filter, in fetch order, and           *)
(* matchingItems is at most totalItems.                                    *)
(***************************************************************************)
C25_AllItemsFilteredLocally ==
  SiSucceeded =>
    /\ siFormatted.totalItems = ItemCount(siBook)
    /\ siFormatted.items = SuppliedMatches(siArgs.filters, siAllItems)
    /\ siFormatted.matchingItems = Len(siFormatted.items)
    /\ siFormatted.matchingItems <= siFormatted.totalItems

(***************************************************************************)
(* C28: the pagination loop requests each page at most once per call: no   *)
(* two of its requests carry the same cursor, the request without a cursor *)
(* included.  It therefore makes no more requests than the item list has   *)
(* pages, and ends, whatever the provider answers.                         *)
(***************************************************************************)
C28_EachPageAtMostOnce ==
  /\ \A i, j \in 1..Len(siRequests) :
       i # j => siRequests[i].params.cursor # siRequests[j].params.cursor
  /\ Len(siRequests) <= Len(siBook)

====
